---- MODULE Spec2Model ----
(***************************************************************************)
(* Model of the DiabetesPredictor classes of the repository and of their   *)
(* callers.  Four variants of the class exist; `variant` fixes which one   *)
(* a behaviour runs:                                                       *)
(*   "pkg"  src/Diabetes predection/diabetes.py                            *)
(*   "pred" src/predicator.py  (the `predictor` module of app.py)          *)
(*   "dia"  src/diabete.py                                                 *)
(*   "web"  src/diabetes.py    (the `diabetes` module of web_app.py)       *)
(*                                                                         *)
(* Python strings are sequences of one-character strings, so that strip()  *)
(* and lower() are computed.  Numbers are integers counting tenths         *)
(* (45.0 is 450); probabilities count 1/100000 (0.75 is 75000).            *)
(*                                                                         *)
(* A value the code computes once and then reads several times (a local    *)
(* variable) is bound once, as the member of a singleton set:              *)
(*   CHOOSE o \in {body : x \in {value}} : TRUE                            *)
(***************************************************************************)
EXTENDS Integers, Sequences, FiniteSets, TLC

VARIABLES
    variant,      \* which DiabetesPredictor class this process imported
    sklearn,      \* the installed scikit-learn generation
    self,         \* the predictor object's attributes
    disk,         \* the model files in the working directory
    pc,           \* "idle" | "returned": the caller's position
    user_input,   \* argument of the last predict_diabetes call
    result,       \* what that call returned
    trace,        \* the scaler/classifier calls that call made, in order
    raised,       \* whether an exception escaped that call
    caller_df,    \* the caller's frame from load_and_preprocess_data
    repeated,     \* whether that call was the same call made a second time
    server,       \* "down" | "up": whether app.py / web_app.py serves HTTP
    completed,    \* whether a load_model or train_model call has succeeded
    saver         \* another process inside save_model: its predictor and the
                  \* number of files it has written so far

vars == <<variant, sklearn, self, disk, pc, user_input, result, trace, raised,
          caller_df, repeated, server, completed, saver>>

(***************************************************************************)
(* Python strings                                                          *)
(***************************************************************************)
UpperChars == <<"A","B","C","D","E","F","G","H","I","J","K","L","M",
                "N","O","P","Q","R","S","T","U","V","W","X","Y","Z">>
LowerChars == <<"a","b","c","d","e","f","g","h","i","j","k","l","m",
                "n","o","p","q","r","s","t","u","v","w","x","y","z">>
Digits == <<"0","1","2","3","4","5","6","7","8","9">>
Whitespace == {" ", "\t", "\n"}

IndexIn(seq, c) == IF \E i \in 1..Len(seq) : seq[i] = c
                   THEN CHOOSE i \in 1..Len(seq) : seq[i] = c
                   ELSE 0

char_lower(c) == IF IndexIn(UpperChars, c) > 0 THEN LowerChars[IndexIn(UpperChars, c)] ELSE c

\* str.lower()
lower(s) == [i \in 1..Len(s) |-> char_lower(s[i])]

RECURSIVE lstrip(_)
lstrip(s) == IF s # <<>> /\ Head(s) \in Whitespace THEN lstrip(Tail(s)) ELSE s

RECURSIVE rstrip(_)
rstrip(s) == IF s # <<>> /\ s[Len(s)] \in Whitespace
             THEN rstrip(SubSeq(s, 1, Len(s) - 1)) ELSE s

\* str.strip()
strip(s) == rstrip(lstrip(s))

\* code point order of the characters the model uses (space < digits < upper < lower)
CharOrder == <<" ", ".">> \o Digits \o UpperChars \o LowerChars

RECURSIVE str_less(_, _)
str_less(a, b) ==
    IF b = <<>> THEN FALSE
    ELSE IF a = <<>> THEN TRUE
    ELSE IF Head(a) = Head(b) THEN str_less(Tail(a), Tail(b))
    ELSE IndexIn(CharOrder, Head(a)) < IndexIn(CharOrder, Head(b))

(***************************************************************************)
(* Python values: t is the type tag, n the number (tenths), s the string.  *)
(***************************************************************************)
Num(x)  == [t |-> "num",  n |-> x, s |-> <<>>]
StrV(x) == [t |-> "str",  n |-> 0, s |-> x]
NoneV   == [t |-> "none", n |-> 0, s |-> <<>>]
NaN     == [t |-> "nan",  n |-> 0, s |-> <<>>]
Inf     == [t |-> "inf",  n |-> 0, s |-> <<>>]

IsZero(v) == v.t = "num" /\ v.n = 0

RECURSIVE digits_of(_)
digits_of(k) == IF k < 10 THEN <<Digits[k + 1]>>
                ELSE digits_of(k \div 10) \o <<Digits[(k % 10) + 1]>>

\* str(x)
py_str(v) ==
    CASE v.t = "str"  -> v.s
      [] v.t = "none" -> <<"N","o","n","e">>
      [] v.t = "nan"  -> <<"n","a","n">>
      [] v.t = "inf"  -> <<"i","n","f">>
      [] v.t = "num"  ->
           LET a == IF v.n < 0 THEN -v.n ELSE v.n
           IN  (IF v.n < 0 THEN <<"-">> ELSE <<>>)
               \o digits_of(a \div 10) \o <<".">> \o digits_of(a % 10)

AllDigits(s) == s # <<>> /\ \A i \in 1..Len(s) : IndexIn(Digits, s[i]) > 0

RECURSIVE int_of(_)
int_of(s) == IF s = <<>> THEN 0
             ELSE 10 * int_of(SubSeq(s, 1, Len(s) - 1)) + (IndexIn(Digits, s[Len(s)]) - 1)

\* the unsigned decimal literals float() accepts, to one fractional digit
parse_decimal(s) ==
    LET dot == IndexIn(s, ".")
        ip  == IF dot = 0 THEN s ELSE SubSeq(s, 1, dot - 1)
        fp  == IF dot = 0 THEN <<>> ELSE SubSeq(s, dot + 1, Len(s))
    IN  IF (ip = <<>> /\ fp = <<>>) \/ (ip # <<>> /\ ~AllDigits(ip))
           \/ (fp # <<>> /\ ~AllDigits(fp)) \/ Len(fp) > 1
        THEN [ok |-> FALSE, val |-> NoneV, exc |-> "ValueError"]
        ELSE [ok |-> TRUE, val |-> Num(10 * int_of(ip) + int_of(fp)), exc |-> ""]

\* float(x): a number is kept, a string is parsed, anything else is a TypeError
py_float(v) ==
    CASE v.t \in {"num", "nan", "inf"} -> [ok |-> TRUE, val |-> v, exc |-> ""]
      [] v.t = "none" -> [ok |-> FALSE, val |-> NoneV, exc |-> "TypeError"]
      [] v.t = "str" ->
           LET b   == lower(strip(v.s))
               neg == b # <<>> /\ Head(b) = "-"
               u   == IF b # <<>> /\ Head(b) \in {"-", "+"} THEN Tail(b) ELSE b
               d   == parse_decimal(u)
           IN  IF u = <<"n","a","n">> THEN [ok |-> TRUE, val |-> NaN, exc |-> ""]
               ELSE IF u \in {<<"i","n","f">>, <<"i","n","f","i","n","i","t","y">>}
                    THEN [ok |-> TRUE, val |-> Inf, exc |-> ""]
               ELSE IF d.ok /\ neg THEN [d EXCEPT !.val = Num(-d.val.n)]
               ELSE d

(***************************************************************************)
(* String literals of the source                                           *)
(***************************************************************************)
s_female == <<"f","e","m","a","l","e">>
s_male == <<"m","a","l","e">>
s_other == <<"o","t","h","e","r">>
s_Female == <<"F","e","m","a","l","e">>
s_Male == <<"M","a","l","e">>
s_Other == <<"O","t","h","e","r">>
s_never == <<"n","e","v","e","r">>
s_not_current == <<"n","o","t"," ","c","u","r","r","e","n","t">>
s_current == <<"c","u","r","r","e","n","t">>
s_no_info == <<"n","o"," ","i","n","f","o">>
s_No_Info == <<"N","o"," ","I","n","f","o">>
s_ever == <<"e","v","e","r">>
s_former == <<"f","o","r","m","e","r">>

required_fields == <<"gender", "age", "bmi", "smoking_history",
                     "hbA1c_level", "blood_glucose_level">>
numeric_fields == <<"age", "bmi", "hbA1c_level", "blood_glucose_level">>
zero_invalid_cols == <<"bmi", "hbA1c_level", "blood_glucose_level">>
drop_cols == {"year", "location", "clinical_notes"}

Range(seq) == {seq[i] : i \in 1..Len(seq)}

\* dict.get(key) on a dict modelled as a function; None when the key is absent
dict_get(d, k) == IF k \in DOMAIN d THEN d[k] ELSE NoneV

\* Series.str.strip().str.lower().map(mapping) on one cell
series_map_normalising(mapping, v) ==
    IF v.t = "str" /\ lower(strip(v.s)) \in DOMAIN mapping
    THEN Num(10 * mapping[lower(strip(v.s))]) ELSE NaN

\* Series.map(mapping) on one cell: a value that is no key becomes NaN
series_map(mapping, v) ==
    IF v.t = "str" /\ v.s \in DOMAIN mapping THEN Num(10 * mapping[v.s]) ELSE NaN

(***************************************************************************)
(* The training datasets (CSV files) the model draws from.  A dataset is   *)
(* its column list and its rows; dataset 0 is "no such file".              *)
(***************************************************************************)
Row(g, a, s, b, h, gl, d) ==
    [gender |-> StrV(g), age |-> Num(a), smoking_history |-> StrV(s), bmi |-> Num(b),
     hbA1c_level |-> Num(h), blood_glucose_level |-> Num(gl), diabetes |-> Num(d)]

DatasetRows ==
    << Row(s_Female, 450, s_never,       273, 55, 1100, 0),
       Row(s_Male,   600, s_current,       0, 66, 1400, 1),
       Row(s_Female, 300, s_No_Info,     250, 50,  900, 0),
       Row(s_Male,   520, s_former,      310, 70,    0, 1),
       Row(s_Other,  380, s_never,       221,  0, 1260, 0),
       Row(s_Female, 710, s_ever,          0, 60, 1000, 1),
       Row(s_Male,   640, s_not_current, 298, 58, 1550, 1),
       Row(s_Female, 250, s_No_Info,     273, 62,  850, 0) >>

AllCols == <<"gender", "age", "smoking_history", "bmi", "hbA1c_level",
             "blood_glucose_level", "diabetes">>

DatasetIds == {1, 2}

\* dataset 1 has every column and the rows as they are; dataset 2 lacks the bmi
\* column, has an empty hbA1c_level cell and two category spellings of its own
Dataset(did) ==
    IF did = 1 THEN [cols |-> AllCols, rows |-> DatasetRows]
    ELSE [cols |-> SelectSeq(AllCols, LAMBDA c : c # "bmi"),
          rows |-> [DatasetRows EXCEPT ![5].hbA1c_level = NaN,
                                       ![8].gender = StrV(<<"u","n","k","n","o","w","n">>),
                                       ![3].smoking_history = StrV(<<"s","o","m","e">>),
                                       ![1].gender = StrV(<<" ","F","E","M","A","L","E">>)]]

\* k-th smallest element of a sequence of integers
kth(vals, k) ==
    CHOOSE v \in Range(vals) :
        /\ Cardinality({i \in 1..Len(vals) : vals[i] < v}) < k
        /\ k <= Cardinality({i \in 1..Len(vals) : vals[i] <= v})

\* Series.replace(0, nan).median(): the median of the non-zero cells, NaN when none
median_nonzero(ds, col) ==
    LET all  == [i \in 1..Len(ds.rows) |-> ds.rows[i][col].n]
        vals == SelectSeq(all, LAMBDA x : x # 0)
        n    == Len(vals)
    IN  IF n = 0 THEN NaN
        ELSE IF n % 2 = 1 THEN Num(kth(vals, (n + 1) \div 2))
        ELSE Num((kth(vals, n \div 2) + kth(vals, n \div 2 + 1)) \div 2)

class_count(ds, c) == Cardinality({i \in 1..Len(ds.rows) : ds.rows[i]["diabetes"].n = c})

\* train_test_split(test_size=0.2, stratify=y) needs a test part of at least one
\* row per class and at least two rows of each class
stratify_ok(ds) ==
    /\ (Len(ds.rows) + 4) \div 5 >= 2
    /\ \A c \in {0, 1} : class_count(ds, c) >= 2

\* GridSearchCV(cv=3) needs three rows of each class in the training part
cv_ok(ds) == \A c \in {0, 1} : class_count(ds, c) - 1 >= 3

(***************************************************************************)
(* scikit-learn objects.  A fitted scaler or classifier is known by the    *)
(* dataset it was fitted on (fit) and its input width (n); what it         *)
(* computes is a fixed function of its input.                              *)
(***************************************************************************)
NoScaler        == [kind |-> "none",     fit |-> 0, names |-> <<>>]
UnfittedScaler  == [kind |-> "unfitted", fit |-> 0, names |-> <<>>]
FittedScaler(did, names) == [kind |-> "fitted", fit |-> did, names |-> names]

NoModel         == [kind |-> "none", fit |-> 0, n |-> 0]
Forest(did, n)  == [kind |-> "rf", fit |-> did, n |-> n]

NoNames         == [isnone |-> TRUE,  list |-> <<>>]
Names(l)        == [isnone |-> FALSE, list |-> l]
EmptyDict       == [k \in {} |-> NoneV]
NoMedians       == [isnone |-> TRUE,  dict |-> EmptyDict]
Medians(d)      == [isnone |-> FALSE, dict |-> d]

(***************************************************************************)
(* The predictor object and the files                                      *)
(***************************************************************************)
EmptyEncoder == [k \in {} |-> <<>>]

\* __init__
new_predictor ==
    [model |-> NoModel, scaler |-> NoScaler, feature_names |-> NoNames,
     training_medians |-> NoMedians, is_trained |-> FALSE, encoder |-> EmptyEncoder]

\* the three class variants that keep is_trained and training_medians
FlagVariants == {"pkg", "pred", "dia"}

\* "ready" as each class tests it at the head of predict_diabetes
is_ready(v, p) ==
    IF v = "web" THEN p.model.kind # "none" /\ p.scaler.kind # "none" ELSE p.is_trained

NoFile     == [exists |-> FALSE, model |-> NoModel, scaler |-> NoScaler,
               encoder |-> EmptyEncoder, feature_names |-> NoNames]
NoMeta     == [exists |-> FALSE, valid |-> FALSE, has_fn |-> FALSE, fn |-> NoNames,
               has_tm |-> FALSE, tm |-> NoMedians]
EmptyDisk  == [pkl |-> NoFile, scaler |-> NoFile, meta |-> NoMeta]

NoDf       == [id |-> 0, cols |-> <<>>, rows |-> <<>>]

gender_mapping(v) ==
    IF v = "pkg" THEN (s_female :> 0) @@ (s_male :> 1) @@ (s_other :> 2)
    ELSE (s_Female :> 0) @@ (s_Male :> 1) @@ (s_Other :> 2)

smoking_mapping(v) ==
    IF v = "pkg"
    THEN (s_never :> 0) @@ (s_not_current :> 1) @@ (s_current :> 2)
         @@ (s_no_info :> 3) @@ (s_ever :> 4) @@ (s_former :> 5)
    ELSE (s_never :> 0) @@ (s_not_current :> 1) @@ (s_current :> 2)
         @@ (s_No_Info :> 3) @@ (s_ever :> 4) @@ (s_former :> 5)

valid_genders == <<s_female, s_male, s_other>>
valid_smoking_values == <<s_never, s_not_current, s_current, s_no_info, s_ever, s_former>>

Without(seq, S) == SelectSeq(seq, LAMBDA c : c \notin S)

(***************************************************************************)
(* load_and_preprocess_data / _clean_data                                  *)
(***************************************************************************)
\* the zero-sentinel columns the frame has, in zero_invalid_cols order
present_zero_cols(cols) == SelectSeq(zero_invalid_cols, LAMBDA c : c \in Range(cols))

\* _clean_data of pkg, pred and dia: the medians recorded, and whether the loop
\* raised (pkg only: a column with no non-zero value stops it)
clean_medians(v, ds, cols) ==
    LET zc   == present_zero_cols(cols)
        bad  == {i \in 1..Len(zc) : median_nonzero(ds, zc[i]).t = "nan"}
        stop == IF v = "pkg" /\ bad # {} THEN CHOOSE i \in bad : \A j \in bad : i <= j
                ELSE Len(zc) + 1
    IN  [dict   |-> [c \in {zc[i] : i \in 1..(stop - 1)} |-> median_nonzero(ds, c)],
         raised |-> stop <= Len(zc)]

RECURSIVE sorted_strings(_)
sorted_strings(S) ==
    IF S = {} THEN <<>>
    ELSE LET m == CHOOSE x \in S : \A y \in S \ {x} : str_less(x, y)
         IN  <<m>> \o sorted_strings(S \ {m})

\* LabelEncoder().fit(column.astype(str)).classes_: the sorted distinct strings
label_classes(ds, col) == sorted_strings({ds.rows[i][col].s : i \in 1..Len(ds.rows)})

web_required_cols == <<"gender", "age", "smoking_history", "bmi", "hbA1c_level",
                       "blood_glucose_level", "diabetes">>

\* a variant that fills the empty cells only
fill_median_empty_only(x, m) == IF x.t = "nan" THEN m ELSE x

\* df[col].replace(0, np.nan) ... .fillna(median_val) on one cell
fill_median(x, m) == IF IsZero(x) \/ x.t = "nan" THEN m ELSE x

\* a variant that leaves a spelling outside the mapping unencoded
category_code_unfilled(v, mapping, fallback, x) ==
    IF x.t = "str" /\ x.s \in DOMAIN mapping THEN Num(10 * mapping[x.s]) ELSE NaN

\* Series.map(mapping).fillna(mapping[fallback]) on one cell; the class of
\* Diabetes predection/diabetes.py does astype(str).str.strip().str.lower() first
category_code(v, mapping, fallback, x) ==
    CHOOSE o \in {IF k \in DOMAIN mapping THEN Num(10 * mapping[k])
                  ELSE Num(10 * mapping[fallback]) :
                    k \in {IF v = "pkg" THEN lower(strip(py_str(x)))
                           ELSE IF x.t = "str" THEN x.s ELSE <<>>}} : TRUE

\* the median pandas takes of a column's non-empty cells
median_filled(ds, col) ==
    LET cells == SelectSeq([i \in 1..Len(ds.rows) |-> ds.rows[i][col]],
                           LAMBDA x : x.t = "num")
        vals  == [i \in 1..Len(cells) |-> cells[i].n]
        n     == Len(vals)
    IN  IF n = 0 THEN NaN
        ELSE IF n % 2 = 1 THEN Num(kth(vals, (n + 1) \div 2))
        ELSE Num((kth(vals, n \div 2) + kth(vals, n \div 2 + 1)) \div 2)

\* the frame load_and_preprocess_data returns: the rows of ds over cols, cleaned
\* (_clean_data with the medians med just recorded; in src/diabetes.py the
\* median fill of empty numeric cells and the LabelEncoder codes)
clean_data(v, ds, cols, med) ==
    [i \in 1..Len(ds.rows) |->
       [c \in Range(cols) |->
          IF v = "web"
          THEN IF c \in {"gender", "smoking_history"}
               THEN Num(10 * (IndexIn(label_classes(ds, c), py_str(ds.rows[i][c])) - 1))
               ELSE IF c # "diabetes" /\ ds.rows[i][c].t = "nan"
               THEN median_filled(ds, c)
               ELSE ds.rows[i][c]
          ELSE IF c \in DOMAIN med THEN fill_median(ds.rows[i][c], med[c])
          ELSE IF c = "gender"
               THEN category_code(v, gender_mapping(v),
                                  IF v = "pkg" THEN s_other ELSE s_Other, ds.rows[i][c])
          ELSE IF c = "smoking_history"
               THEN category_code(v, smoking_mapping(v),
                                  IF v = "pkg" THEN s_no_info ELSE s_No_Info, ds.rows[i][c])
          ELSE ds.rows[i][c]]]

\* load_and_preprocess_data(file): [self, out, df]; out is "df" or "raised"
load_and_preprocess_data(v, p, did) ==
    IF did = 0 THEN [self |-> p, out |-> "raised", df |-> NoDf]
    ELSE
    LET ds == Dataset(did) IN
    IF v = "web" THEN
        IF "diabetes" \notin Range(ds.cols) THEN [self |-> p, out |-> "raised", df |-> NoDf]
        ELSE
        LET cols == SelectSeq(web_required_cols, LAMBDA c : c \in Range(ds.cols))
            enc  == [c \in (DOMAIN p.encoder) \cup ({"gender", "smoking_history"} \cap Range(cols))
                        |-> IF c \in Range(cols) THEN label_classes(ds, c) ELSE p.encoder[c]]
        IN  [self |-> [p EXCEPT !.encoder = enc,
                                !.feature_names = Names(Without(cols, {"diabetes"}))],
             out |-> "df",
             df |-> [id |-> did, cols |-> cols, rows |-> clean_data(v, ds, cols, EmptyDict)]]
    ELSE
    LET cols == IF v = "pred" THEN ds.cols ELSE Without(ds.cols, drop_cols)
        cm   == clean_medians(v, ds, cols)
        p1   == [p EXCEPT !.training_medians = Medians(cm.dict)]
    IN  IF \/ cm.raised
           \/ "gender" \notin Range(cols) \/ "smoking_history" \notin Range(cols)
           \/ "diabetes" \notin Range(cols)
        THEN [self |-> p1, out |-> "raised", df |-> NoDf]
        ELSE [self |-> p1, out |-> "df",
              df |-> [id |-> did, cols |-> cols, rows |-> clean_data(v, ds, cols, cm.dict)]]

(***************************************************************************)
(* train_model(df): [self, out]; out is "None", "model" or "raised"        *)
(***************************************************************************)
train_model(v, p, df) ==
    IF "diabetes" \notin Range(df.cols) THEN [self |-> p, out |-> "raised"]
    ELSE
    LET ds == Dataset(df.id)
        fn == Without(df.cols, {"diabetes"})
        p1 == [p EXCEPT !.feature_names = Names(fn)]
        p2 == [p1 EXCEPT !.scaler = FittedScaler(df.id, fn)]
        p3 == [p2 EXCEPT !.model = Forest(df.id, Len(fn)), !.is_trained = (v # "web")]
    IN  IF ~stratify_ok(ds) THEN [self |-> p1, out |-> "raised"]
        ELSE IF v = "web" THEN [self |-> p3, out |-> "model"]
        ELSE IF ~cv_ok(ds) THEN [self |-> p2, out |-> "raised"]
        ELSE [self |-> p3, out |-> "None"]

(***************************************************************************)
(* save_model(): [disk, out]; out is "None", "True" or "raised"            *)
(***************************************************************************)
\* json.dump writes a float as its repr, rounded to an integer here
json_number_rounded(v) ==
    IF v.t = "nan" THEN <<"N","a","N">> ELSE digits_of((v.n + 5) \div 10) \o <<".","0">>

\* json.dump writes a float as its repr and a nan as NaN
json_number(v) == IF v.t = "nan" THEN <<"N","a","N">> ELSE py_str(v)

\* json.load reads a number token back into a float
json_parse_number(s) == IF s = <<"N","a","N">> THEN NaN ELSE parse_decimal(s).val

\* the training_medians entry as json.dump writes it: null, or an object of
\* number tokens under the column names
json_dump_medians(m) ==
    [null |-> m.isnone, object |-> [c \in DOMAIN m.dict |-> json_number(m.dict[c])]]

\* the training_medians entry as json.load reads it
json_load_medians(t) ==
    IF t.null THEN NoMedians
    ELSE Medians([c \in DOMAIN t.object |-> json_parse_number(t.object[c])])

\* save_model(); meta.tm is what a reader parses from the JSON text written
save_model(v, p, d) ==
    IF v = "web" THEN
        [disk |-> [d EXCEPT !.pkl = [exists |-> TRUE, model |-> p.model,
                                     scaler |-> p.scaler, encoder |-> p.encoder,
                                     feature_names |-> p.feature_names]],
         out |-> "True"]
    ELSE IF ~p.is_trained THEN [disk |-> d, out |-> "raised"]
    ELSE
        [disk |-> [pkl    |-> [NoFile EXCEPT !.exists = TRUE, !.model = p.model],
                   scaler |-> [NoFile EXCEPT !.exists = TRUE, !.scaler = p.scaler],
                   meta   |-> [exists |-> TRUE, valid |-> TRUE,
                               has_fn |-> TRUE, fn |-> p.feature_names,
                               has_tm |-> TRUE,
                               tm |-> json_load_medians(json_dump_medians(p.training_medians))]],
         out |-> "None"]

(***************************************************************************)
(* load_model(): [self, out]; out is "True", "False" or "raised"           *)
(***************************************************************************)
FeatureI == <<"feature_0", "feature_1", "feature_2", "feature_3",
              "feature_4", "feature_5", "feature_6">>

\* diabete.py _recover_feature_names: placeholder names from the scaler's width
recover_feature_names(p) ==
    IF p.scaler.kind = "fitted"
    THEN [self |-> [p EXCEPT !.feature_names =
                        Names(SubSeq(FeatureI, 1, Len(p.scaler.names)))],
          raised |-> FALSE]
    ELSE [self |-> p, raised |-> TRUE]

\* meta.get("training_medians", {})
meta_medians(m) == IF m.has_tm THEN m.tm ELSE Medians(EmptyDict)

\* a variant that sets the flag as soon as the classifier is read
pkg_load_model_eager(p, d) ==
    IF ~d.pkl.exists THEN [self |-> p, out |-> "False"]
    ELSE IF ~d.scaler.exists \/ ~d.meta.exists \/ ~d.meta.valid \/ ~d.meta.has_fn
    THEN [self |-> [p EXCEPT !.model = d.pkl.model, !.is_trained = TRUE], out |-> "False"]
    ELSE [self |-> [p EXCEPT !.model = d.pkl.model, !.scaler = d.scaler.scaler,
                             !.feature_names = d.meta.fn,
                             !.training_medians = meta_medians(d.meta),
                             !.is_trained = TRUE],
          out |-> "True"]

\* a variant that clears the flag when the classifier file is missing
pkg_load_model_clearing(p, d) ==
    IF ~d.pkl.exists THEN [self |-> [p EXCEPT !.is_trained = FALSE], out |-> "False"]
    ELSE IF ~d.scaler.exists \/ ~d.meta.exists \/ ~d.meta.valid \/ ~d.meta.has_fn
    THEN [self |-> [p EXCEPT !.model = d.pkl.model], out |-> "False"]
    ELSE [self |-> [p EXCEPT !.model = d.pkl.model, !.scaler = d.scaler.scaler,
                             !.feature_names = d.meta.fn,
                             !.training_medians = meta_medians(d.meta),
                             !.is_trained = TRUE],
          out |-> "True"]

pkg_load_model(p, d) ==
    IF ~d.pkl.exists THEN [self |-> p, out |-> "False"]
    ELSE
    LET p1 == [p EXCEPT !.model = d.pkl.model] IN
    IF ~d.scaler.exists THEN [self |-> p1, out |-> "False"]
    ELSE
    LET p2 == [p1 EXCEPT !.scaler = d.scaler.scaler] IN
    IF ~d.meta.exists \/ ~d.meta.valid THEN [self |-> p2, out |-> "False"]
    ELSE
    LET p3 == [p2 EXCEPT !.feature_names = IF d.meta.has_fn THEN d.meta.fn ELSE NoNames,
                         !.training_medians = meta_medians(d.meta)]
    IN  IF p3.feature_names.isnone \/ p3.feature_names.list = <<>>
        THEN [self |-> p3, out |-> "False"]
        ELSE [self |-> [p3 EXCEPT !.is_trained = TRUE], out |-> "True"]

pred_load_model(p, d) ==
    IF ~(d.pkl.exists /\ d.scaler.exists) THEN [self |-> p, out |-> "False"]
    ELSE
    LET p2 == [p EXCEPT !.model = d.pkl.model, !.scaler = d.scaler.scaler] IN
    IF ~d.meta.exists THEN [self |-> [p2 EXCEPT !.is_trained = TRUE], out |-> "True"]
    ELSE IF ~d.meta.valid THEN [self |-> p2, out |-> "raised"]
    ELSE [self |-> [p2 EXCEPT !.feature_names = IF d.meta.has_fn THEN d.meta.fn
                                                 ELSE Names(<<>>),
                              !.training_medians = meta_medians(d.meta),
                              !.is_trained = TRUE],
          out |-> "True"]

dia_load_model(p, d) ==
    IF ~(d.pkl.exists /\ d.scaler.exists) THEN [self |-> p, out |-> "False"]
    ELSE
    LET p2  == [p EXCEPT !.model = d.pkl.model, !.scaler = d.scaler.scaler]
        use == d.meta.exists /\ d.meta.valid /\ d.meta.has_fn
               /\ ~d.meta.fn.isnone /\ d.meta.fn.list # <<>>
        rec == recover_feature_names(p2)
    IN  IF use
        THEN [self |-> [p2 EXCEPT !.feature_names = d.meta.fn,
                                  !.training_medians = meta_medians(d.meta),
                                  !.is_trained = TRUE],
              out |-> "True"]
        ELSE IF rec.raised THEN [self |-> p2, out |-> "raised"]
        ELSE [self |-> [rec.self EXCEPT !.is_trained = TRUE], out |-> "True"]

\* len(self.feature_names) in the closing print raises TypeError on None, after
\* the attributes were assigned
web_load_model(p, d) ==
    IF ~d.pkl.exists THEN [self |-> p, out |-> "False"]
    ELSE [self |-> [p EXCEPT !.model = d.pkl.model, !.scaler = d.pkl.scaler,
                             !.encoder = d.pkl.encoder,
                             !.feature_names = d.pkl.feature_names],
          out |-> IF d.pkl.feature_names.isnone THEN "False" ELSE "True"]

load_model(v, p, d) ==
    CASE v = "pkg"  -> pkg_load_model(p, d)
      [] v = "pred" -> pred_load_model(p, d)
      [] v = "dia"  -> dia_load_model(p, d)
      [] v = "web"  -> web_load_model(p, d)

(***************************************************************************)
(* scaler.transform, model.predict, model.predict_proba                    *)
(***************************************************************************)
\* a one-row DataFrame: ordered column names and the cell of each
Frame(cols, cell) == [cols |-> cols, cell |-> cell]
frame_values(df) == [i \in 1..Len(df.cols) |-> df.cell[df.cols[i]]]

\* the conversion of one cell to float64 that check_array / astype(float) does
to_float64(v) == IF v.t = "none" THEN [ok |-> TRUE, val |-> NaN, exc |-> ""] ELSE py_float(v)

\* StandardScaler.transform(df).  A scaler fitted on a DataFrame checks the
\* column names (an error from scikit-learn 1.2 on, a warning before), the
\* width, and that no cell is infinite; NaN cells pass through.
scaled_row(sk, sc, df, conv) ==
    IF sc.kind = "none" THEN [ok |-> FALSE, x |-> <<>>, fit |-> 0, exc |-> "AttributeError"]
    ELSE IF sc.kind = "unfitted"
         THEN [ok |-> FALSE, x |-> <<>>, fit |-> 0, exc |-> "NotFittedError"]
    ELSE IF \/ Len(df.cols) # Len(sc.names)
            \/ (sk # "old" /\ df.cols # sc.names)
            \/ \E i \in 1..Len(conv) : ~conv[i].ok \/ conv[i].val.t = "inf"
         THEN [ok |-> FALSE, x |-> <<>>, fit |-> 0, exc |-> "ValueError"]
    ELSE [ok |-> TRUE, x |-> [i \in 1..Len(conv) |-> conv[i].val], fit |-> sc.fit,
          exc |-> ""]

transform(sk, sc, df) ==
    CHOOSE r \in {scaled_row(sk, sc, df, conv) :
                    conv \in {[i \in 1..Len(df.cols) |-> to_float64(df.cell[df.cols[i]])]}} :
        TRUE

\* the probabilities a classifier can return, in 1/100000
ProbGrid == <<0, 19000, 20000, 30000, 30001, 33333, 50000, 50001, 66667,
              70000, 70001, 75000, 80000, 80001, 100000>>

RECURSIVE sum_cells(_)
sum_cells(x) == IF x = <<>> THEN 0
                ELSE (IF Head(x).t = "num" THEN Head(x).n ELSE 0) + sum_cells(Tail(x))

\* predict_proba(scaled)[0][1] of a fitted forest: a fixed function of the
\* forest and of the scaled row
forest_proba(m, scaled) ==
    ProbGrid[((sum_cells(scaled.x) + m.fit + 1000 * scaled.fit) % Len(ProbGrid)) + 1]

\* the validation predict and predict_proba share: wrong width is an error, and a
\* NaN cell is an error before scikit-learn 1.4
forest_accepts(sk, m, scaled) ==
    IF m.kind = "none" THEN [ok |-> FALSE, exc |-> "AttributeError"]
    ELSE IF Len(scaled.x) # m.n THEN [ok |-> FALSE, exc |-> "ValueError"]
    ELSE IF sk # "new" /\ \E i \in 1..Len(scaled.x) : scaled.x[i].t = "nan"
         THEN [ok |-> FALSE, exc |-> "ValueError"]
    ELSE [ok |-> TRUE, exc |-> ""]

\* model.predict(scaled)[0]: the class of the larger probability, 0 on a tie
forest_predict(m, scaled) == IF forest_proba(m, scaled) > 50000 THEN 1 ELSE 0

(***************************************************************************)
(* Result fields of pkg, pred and dia                                      *)
(***************************************************************************)
prediction_label(pred) == IF pred = 1 THEN "Diabetes" ELSE "No Diabetes"

\* a variant that truncates instead of rounding
probability_percent_floor(prob) == prob \div 10

\* round(prob * 100, 2), counted in hundredths of a percent
probability_percent(prob) ==
    LET q == prob \div 10
        r == prob % 10
    IN  IF r > 5 \/ (r = 5 /\ q % 2 = 1) THEN q + 1 ELSE q

\* a variant with a closed lower band
confidence_closed(prob) == IF prob > 80000 \/ prob <= 20000 THEN "High" ELSE "Medium"

confidence(prob) == IF prob > 80000 \/ prob < 20000 THEN "High" ELSE "Medium"

\* variants with a closed bound at 0.3 and at 0.7
risk_category_medium_closed(prob) ==
    IF prob > 70000 THEN "High" ELSE (IF prob >= 30000 THEN "Medium" ELSE "Low")
risk_category_high_closed(prob) ==
    IF prob >= 70000 THEN "High" ELSE (IF prob > 30000 THEN "Medium" ELSE "Low")

risk_category(prob) ==
    IF prob > 70000 THEN "High" ELSE (IF prob > 30000 THEN "Medium" ELSE "Low")

Err(msg, detail) == [error |-> [msg |-> msg, detail |-> detail]]

Ev(call, cols, x) == [call |-> call, cols |-> cols, x |-> x]

NoResult == [none |-> TRUE]
NoFrame  == Frame(<<>>, [k \in {} |-> NoneV])

\* how a block of statements ends: it returns a result, raises, or falls
\* through to the next block with the frame it built
Returns(res, tr)  == [kind |-> "return", result |-> res, exc |-> "", df |-> NoFrame,
                      trace |-> tr]
Raises(exc, tr)   == [kind |-> "raise", result |-> NoResult, exc |-> exc, df |-> NoFrame,
                      trace |-> tr]
FallsThrough(df)  == [kind |-> "next", result |-> NoResult, exc |-> "", df |-> df,
                      trace |-> <<>>]

\* a variant that catches ValueError only
except_ValueError(o, msg) ==
    IF o.kind = "raise" /\ o.exc = "ValueError"
    THEN Returns(Err(msg, <<o.exc>>), o.trace) ELSE o

\* except Exception as e: return {"error": f"<msg>: {e}"}
except_Exception(o, msg) ==
    IF o.kind = "raise" THEN Returns(Err(msg, <<o.exc>>), o.trace) ELSE o

\* the calls made so far, in order, with what each was given
calls_made(n, df, t) ==
    SubSeq(<<Ev("scaler.transform", df.cols, frame_values(df)),
             Ev("model.predict", <<>>, t.x),
             Ev("model.predict_proba", <<>>, t.x)>>, 1, n)

\* pred = model.predict(scaled)[0]; prob = model.predict_proba(scaled)[0][1];
\* return {...}
model_result(p, df, t, a) ==
    IF ~t.ok THEN Raises(t.exc, calls_made(1, df, t))
    ELSE IF ~a.ok THEN Raises(a.exc, calls_made(2, df, t))
    ELSE Returns([prediction    |-> prediction_label(forest_predict(p.model, t)),
                  probability   |-> probability_percent(forest_proba(p.model, t)),
                  confidence    |-> confidence(forest_proba(p.model, t)),
                  risk_category |-> risk_category(forest_proba(p.model, t))],
                 calls_made(3, df, t))

\* scaled = scaler.transform(df), then the two calls on the forest
model_calls(sk, p, df) ==
    CHOOSE o \in {model_result(p, df, t, forest_accepts(sk, p.model, t)) :
                    t \in {transform(sk, p.scaler, df)}} : TRUE

\* a variant that hands the frame on in the order it was built
reindex_as_built(df, fn) == df

\* df.reindex(columns=feature_names): the named columns in that order, NaN
\* for a column the frame lacks; columns=None leaves the frame as it is
reindex(df, fn) ==
    IF fn.isnone THEN df
    ELSE Frame(fn.list, [c \in Range(fn.list) |->
                            IF c \in Range(df.cols) THEN df.cell[c] ELSE NaN])

(***************************************************************************)
(* predict_diabetes of src/Diabetes predection/diabetes.py                 *)
(***************************************************************************)
\* a variant that reports the first missing field only
pkg_missing_first(u) ==
    LET m == SelectSeq(required_fields, LAMBDA f : f \notin Range(u.keys))
    IN  IF m = <<>> THEN <<>> ELSE <<Head(m)>>

pkg_missing(u) == SelectSeq(required_fields, LAMBDA f : f \notin Range(u.keys))

\* str(user_input[field]).strip().lower()
pkg_category(u, field) == lower(strip(py_str(u.val[field])))

\* a variant that skips the float() check
pkg_bad_number_unchecked(u) == 0 * Len(u.keys)

\* the first numeric field float() rejects, 0 when there is none
pkg_bad_number(u) ==
    LET bad == {i \in 1..Len(numeric_fields) : ~py_float(u.val[numeric_fields[i]]).ok}
    IN  IF bad = {} THEN 0 ELSE CHOOSE i \in bad : \A j \in bad : i <= j

\* a variant that also imputes values below 10.0
pkg_impute_implausible(p, col, val) ==
    IF val.t = "num" /\ val.n < 100 THEN dict_get(p.training_medians.dict, col) ELSE val

\* validated[col] if validated[col] != 0 else self.training_medians.get(col)
pkg_impute(p, col, val) ==
    IF IsZero(val) THEN dict_get(p.training_medians.dict, col) ELSE val

\* the row of the "BUILD CLEAN DATAFRAME" block, in the order the dict is written
pkg_columns == <<"gender", "age", "bmi", "smoking_history", "hbA1c_level",
                 "blood_glucose_level">>

pkg_frame(p, u) ==
    LET validated == [f \in Range(numeric_fields) |-> py_float(u.val[f]).val]
    IN  Frame(pkg_columns,
              [c \in Range(pkg_columns) |->
                  CASE c = "gender" -> Num(10 * gender_mapping("pkg")[pkg_category(u, "gender")])
                    [] c = "smoking_history" ->
                         Num(10 * smoking_mapping("pkg")[pkg_category(u, "smoking_history")])
                    [] c = "age" -> validated["age"]
                    [] OTHER -> pkg_impute(p, c, validated[c])])

\* whether building the row reads self.training_medians (a zero was supplied)
pkg_reads_medians(u) ==
    \E c \in Range(zero_invalid_cols) : IsZero(py_float(u.val[c]).val)

\* the statements of the first try block ("VALIDATION" to "Order columns")
pkg_input_block(p, u) ==
    IF ~u.isdict THEN Raises("TypeError", <<>>)
    ELSE IF pkg_missing(u) # <<>> THEN Returns(Err("Missing fields", pkg_missing(u)), <<>>)
    ELSE IF pkg_category(u, "gender") \notin Range(valid_genders)
         THEN Returns(Err("Invalid gender", <<>>), <<>>)
    ELSE IF pkg_category(u, "smoking_history") \notin Range(valid_smoking_values)
         THEN Returns(Err("Invalid smoking history", <<>>), <<>>)
    ELSE IF pkg_bad_number(u) # 0
         THEN Returns(Err("must be a number", <<numeric_fields[pkg_bad_number(u)]>>), <<>>)
    ELSE IF pkg_reads_medians(u) /\ p.training_medians.isnone
         THEN Raises("AttributeError", <<>>)
    ELSE FallsThrough(reindex(pkg_frame(p, u), p.feature_names))

\* the second try block, entered when the first one built a frame
model_block(sk, p, b) ==
    IF b.kind # "next" THEN b
    ELSE CHOOSE o \in {except_Exception(m, "Prediction failed") :
                         m \in {model_calls(sk, p, b.df)}} : TRUE

pkg_predict_diabetes(sk, p, u) ==
    IF ~p.is_trained THEN Returns(Err("Model not trained or loaded.", <<>>), <<>>)
    ELSE CHOOSE o \in {model_block(sk, p, except_Exception(b, "Input preparation failed")) :
                         b \in {pkg_input_block(p, u)}} : TRUE

(***************************************************************************)
(* predict_diabetes of src/predicator.py and src/diabete.py                *)
(***************************************************************************)
\* pd.DataFrame([user_input]); a non-mapping gives a frame without the fields
input_frame(u) == IF u.isdict THEN Frame(u.keys, u.val) ELSE NoFrame

\* Series.replace(0, value) on one cell
series_replace_zero(v, value) == IF IsZero(v) THEN value ELSE v

\* df["gender"].map(...), df["smoking_history"].map(...) and the replace(0, median) loop
legacy_encode(v, p, df0) ==
    Frame(df0.cols,
          [c \in Range(df0.cols) |->
             CASE c = "gender" -> series_map(gender_mapping(v), df0.cell[c])
               [] c = "smoking_history" -> series_map(smoking_mapping(v), df0.cell[c])
               [] c \in Range(zero_invalid_cols) ->
                    series_replace_zero(df0.cell[c], p.training_medians.dict[c])
               [] OTHER -> df0.cell[c]])

\* .astype(float) on the reindexed frame
legacy_astype(df2) ==
    CHOOSE o \in {IF \E c \in Range(df2.cols) : ~conv[c].ok THEN Raises("ValueError", <<>>)
                  ELSE FallsThrough(Frame(df2.cols, [c \in Range(df2.cols) |-> conv[c].val])) :
                    conv \in {[c \in Range(df2.cols) |-> to_float64(df2.cell[c])]}} : TRUE

\* the statements from DataFrame(...) to reindex(...).astype(float)
legacy_input_block(v, p, u) ==
    IF \E c \in {"gender", "smoking_history", "bmi"} : c \notin Range(input_frame(u).cols)
    THEN Raises("KeyError", <<>>)
    ELSE IF p.training_medians.isnone THEN Raises("TypeError", <<>>)
    ELSE IF \E c \in Range(zero_invalid_cols) :
               c \notin Range(input_frame(u).cols) \/ c \notin DOMAIN p.training_medians.dict
         THEN Raises("KeyError", <<>>)
    ELSE CHOOSE o \in {legacy_astype(df2) :
                         df2 \in {reindex(legacy_encode(v, p, input_frame(u)),
                                          p.feature_names)}} : TRUE

\* the frame goes on to the model calls, anything else ends the block
legacy_then_model(sk, p, b) == IF b.kind # "next" THEN b ELSE model_calls(sk, p, b.df)

\* predicator.py: one try block around everything
pred_predict_diabetes(sk, p, u) ==
    IF ~p.is_trained THEN Returns(Err("Model not ready", <<>>), <<>>)
    ELSE CHOOSE o \in {except_Exception(r, "Prediction failed") :
                         r \in {legacy_then_model(sk, p, b) :
                                  b \in {legacy_input_block("pred", p, u)}}} : TRUE

\* diabete.py with the single try block of predicator.py
dia_predict_diabetes_one_try(sk, p, u) == pred_predict_diabetes(sk, p, u)

\* diabete.py: one try block for the input, one for the model
dia_predict_diabetes(sk, p, u) ==
    IF ~p.is_trained THEN Returns(Err("Model not trained or loaded.", <<>>), <<>>)
    ELSE CHOOSE o \in {model_block(sk, p, except_Exception(b, "Input validation failed")) :
                         b \in {legacy_input_block("dia", p, u)}} : TRUE

(***************************************************************************)
(* src/diabetes.py: validate_input, get_medical_advice, predict_diabetes   *)
(***************************************************************************)
\* self.validation_ranges, in tenths, in the order the dict is written
range_fields == <<"age", "bmi", "hbA1c_level", "blood_glucose_level">>
validation_ranges ==
    [f \in Range(range_fields) |->
        CASE f = "age" -> <<0, 1200>>
          [] f = "bmi" -> <<100, 600>>
          [] f = "hbA1c_level" -> <<30, 150>>
          [] f = "blood_glucose_level" -> <<500, 3000>>]

\* v <= bound in place of v < bound
num_lt_inclusive(v, b) == v.t = "num" /\ v.n <= b

\* v < bound and v > bound on floats: false for NaN, inf is above every bound
num_lt(v, b) == v.t = "num" /\ v.n < b
num_gt(v, b) == (v.t = "num" /\ v.n > b) \/ v.t = "inf"
num_ge(v, b) == (v.t = "num" /\ v.n >= b) \/ v.t = "inf"

\* the entries one field adds to errors; r is float(user_input[field])
range_errors(f, r) ==
    IF ~r.ok THEN <<[msg |-> "is not a valid number", field |-> f]>>
    ELSE IF num_lt(r.val, validation_ranges[f][1])
         THEN <<[msg |-> "is below minimum", field |-> f]>>
    ELSE IF num_gt(r.val, validation_ranges[f][2])
         THEN <<[msg |-> "is above maximum", field |-> f]>>
    ELSE <<>>

\* the entries one field adds to warnings
range_warnings(f, r) ==
    IF ~r.ok THEN <<>>
    ELSE CASE f = "bmi" ->
                IF num_lt(r.val, 185) THEN <<"BMI: Underweight">>
                ELSE IF num_ge(r.val, 250) THEN <<"BMI: Overweight/Obese">> ELSE <<>>
           [] f = "hbA1c_level" ->
                IF num_ge(r.val, 65) THEN <<"HbA1c: Diabetes range">>
                ELSE IF num_ge(r.val, 57) THEN <<"HbA1c: Prediabetes range">> ELSE <<>>
           [] f = "blood_glucose_level" ->
                IF num_ge(r.val, 1260) THEN <<"Blood glucose: Diabetes range">>
                ELSE IF num_ge(r.val, 1000) THEN <<"Blood glucose: Prediabetes range">>
                ELSE <<>>
           [] OTHER -> <<>>

\* the errors and the warnings the loop over validation_ranges collects
RECURSIVE all_range_errors(_, _)
all_range_errors(u, fields) ==
    IF fields = <<>> THEN <<>>
    ELSE (CHOOSE e \in {range_errors(Head(fields), r) :
                          r \in {py_float(u.val[Head(fields)])}} : TRUE)
         \o all_range_errors(u, Tail(fields))

RECURSIVE all_range_warnings(_, _)
all_range_warnings(u, fields) ==
    IF fields = <<>> THEN <<>>
    ELSE (CHOOSE w \in {range_warnings(Head(fields), r) :
                          r \in {py_float(u.val[Head(fields)])}} : TRUE)
         \o all_range_warnings(u, Tail(fields))

\* validate_input(user_input): [raised, is_valid, errors, warnings]; float() of
\* a value that is no number and no string is a TypeError the method lets through
validate_input(u) ==
    IF ~u.isdict
    THEN [raised |-> TRUE, is_valid |-> FALSE, errors |-> <<>>, warnings |-> <<>>]
    ELSE IF \E f \in Range(required_fields) : f \notin Range(u.keys)
    THEN [raised |-> FALSE, is_valid |-> FALSE,
          errors |-> [i \in 1..Len(Without(required_fields, Range(u.keys))) |->
                         [msg |-> "Missing required field",
                          field |-> Without(required_fields, Range(u.keys))[i]]],
          warnings |-> <<>>]
    ELSE IF \E f \in Range(range_fields) : py_float(u.val[f]).exc = "TypeError"
    THEN [raised |-> TRUE, is_valid |-> FALSE, errors |-> <<>>, warnings |-> <<>>]
    ELSE CHOOSE r \in {[raised |-> FALSE, is_valid |-> errors = <<>>, errors |-> errors,
                        warnings |-> all_range_warnings(u, range_fields)] :
                          errors \in {all_range_errors(u, range_fields)}} : TRUE

class_names == <<"No Diabetes", "Diabetes">>

\* encoder.transform(column.astype(str)), 0 for a label not seen in training
web_encode(classes, v) ==
    IF IndexIn(classes, py_str(v)) > 0 THEN Num(10 * (IndexIn(classes, py_str(v)) - 1))
    ELSE Num(0)

\* the frame handed to the scaler: encoded categories, 0 for a feature the
\* input lacks, columns in feature_names order
web_frame(p, u) ==
    LET fn == p.feature_names.list
    IN  Frame(fn, [c \in Range(fn) |->
                      IF c \notin Range(u.keys) THEN Num(0)
                      ELSE IF c \in DOMAIN p.encoder THEN web_encode(p.encoder[c], u.val[c])
                      ELSE u.val[c]])

\* the advice for a probability, a BMI and an HbA1c level
advice_for(prob, bmi, hba1c) ==
    [risk_level |-> IF prob > 70000 THEN "HIGH"
                    ELSE IF prob > 40000 THEN "MODERATE" ELSE "LOW",
     recommendations |->
         IF prob > 70000 THEN <<"Immediate medical consultation", "Schedule tests">>
         ELSE IF prob > 40000 THEN <<"Regular monitoring", "Follow-up test">>
         ELSE <<"Maintain healthy lifestyle", "Annual check-up">>,
     warnings |->
         (IF prob > 70000 THEN <<"High diabetes risk detected">> ELSE <<>>)
         \o (IF num_ge(hba1c, 65) THEN <<"HbA1c indicates diabetes">>
             ELSE IF num_ge(hba1c, 57) THEN <<"HbA1c indicates prediabetes">> ELSE <<>>),
     next_steps |->
         IF num_ge(hba1c, 65) THEN <<"Consult endocrinologist">>
         ELSE IF num_ge(hba1c, 57) THEN <<"Diabetes prevention program">> ELSE <<>>,
     lifestyle_tips |->
         (IF num_ge(bmi, 300) THEN <<"Weight management", "Consult nutritionist">>
          ELSE IF num_ge(bmi, 250) THEN <<"Moderate weight loss">> ELSE <<>>)
         \o <<"Exercise", "Fiber", "Avoid smoking">>]

\* get_medical_advice(prediction_result, user_input)
get_medical_advice(prob, u) ==
    CHOOSE adv \in {advice_for(prob, bmi, hba1c) :
                      bmi \in {py_float(u.val["bmi"]).val},
                      hba1c \in {py_float(u.val["hbA1c_level"]).val}} : TRUE

\* a variant that leaves the error flag unset
WebErr_unflagged(message) == [error |-> FALSE, message |-> message]

WebErr(message) == [error |-> TRUE, message |-> message]
WebInvalid(errors) ==
    [error |-> TRUE, message |-> "Input validation failed", errors |-> errors]

\* except Exception as e: return {'error': True, 'message': f'Prediction error: {e}'}
web_except_Exception(o) ==
    IF o.kind = "raise" THEN Returns(WebErr("Prediction error"), o.trace) ELSE o

\* the success payload
\* a variant that also stamps the warnings with the time of the call
web_payload_stamped(u, now, val, prediction, prob) ==
    [error |-> FALSE,
     prediction |-> prediction,
     prediction_label |-> class_names[prediction + 1],
     probability |-> prob,
     confidence |-> IF prob > 100000 - prob THEN prob ELSE 100000 - prob,
     medical_advice |-> get_medical_advice(prob, u),
     warnings |-> <<val.warnings, now>>,
     timestamp |-> now]

web_payload(u, now, val, prediction, prob) ==
    [error |-> FALSE,
     prediction |-> prediction,
     prediction_label |-> class_names[prediction + 1],
     probability |-> prob,
     confidence |-> IF prob > 100000 - prob THEN prob ELSE 100000 - prob,
     medical_advice |-> get_medical_advice(prob, u),
     warnings |-> val.warnings,
     timestamp |-> now]

\* prediction = model.predict(...)[0]; probabilities = model.predict_proba(...)[0]
web_result(p, u, now, val, df, t, a) ==
    IF ~t.ok THEN Raises(t.exc, calls_made(1, df, t))
    ELSE IF ~a.ok THEN Raises(a.exc, calls_made(2, df, t))
    ELSE CHOOSE o \in {Returns(web_payload(u, now, val, forest_predict(p.model, t), prob),
                               calls_made(3, df, t)) :
                         prob \in {forest_proba(p.model, t)}} : TRUE

\* scaled_features = self.scaler.transform(input_df), then the two calls on the model
web_model_calls(sk, p, u, now, val, df) ==
    CHOOSE o \in {web_result(p, u, now, val, df, t, forest_accepts(sk, p.model, t)) :
                    t \in {transform(sk, p.scaler, df)}} : TRUE

\* the statements of the try block after validate_input returned val
web_after_validation(sk, p, u, now, val) ==
    IF val.raised THEN Raises("TypeError", <<>>)
    ELSE IF ~val.is_valid THEN Returns(WebInvalid(val.errors), <<>>)
    ELSE IF p.model.kind = "none" \/ p.scaler.kind = "none"
         THEN Returns(WebErr("Model not trained or loaded."), <<>>)
    ELSE IF p.feature_names.isnone THEN Raises("TypeError", <<>>)
    ELSE CHOOSE o \in {web_model_calls(sk, p, u, now, val, df) :
                         df \in {web_frame(p, u)}} : TRUE

\* the statements inside the try block of predict_diabetes
web_body(sk, p, u, now) ==
    CHOOSE o \in {web_after_validation(sk, p, u, now, val) :
                    val \in {validate_input(u)}} : TRUE

web_predict_diabetes(sk, p, u, now) ==
    CHOOSE o \in {web_except_Exception(b) : b \in {web_body(sk, p, u, now)}} : TRUE

predict_diabetes(v, sk, p, u, now) ==
    CASE v = "pkg"  -> pkg_predict_diabetes(sk, p, u)
      [] v = "pred" -> pred_predict_diabetes(sk, p, u)
      [] v = "dia"  -> dia_predict_diabetes(sk, p, u)
      [] v = "web"  -> web_predict_diabetes(sk, p, u, now)

(***************************************************************************)
(* The records the callers pass                                            *)
(***************************************************************************)
Mapping(keys, val) == [isdict |-> TRUE, keys |-> keys, val |-> val]
\* None passed where a record is expected
NotAMapping == [isdict |-> FALSE, keys |-> <<>>, val |-> [k \in {} |-> NoneV]]

MaxSweep == 14
MaxTime == 1

BaseRecord ==
    [gender |-> StrV(s_Female), age |-> Num(450), bmi |-> Num(273),
     smoking_history |-> StrV(s_never), hbA1c_level |-> Num(55),
     blood_glucose_level |-> Num(1100)]

Restrict(f, S) == [k \in S |-> f[k]]

GenderValues ==
    {StrV(s_Female), StrV(s_female), StrV(s_Male), StrV(s_other),
     StrV(<<" ","F","e","m","a","l","e"," ">>), StrV(<<"M","A","L","E">>),
     StrV(<<"x","y","z">>), NoneV}
SmokingValues ==
    {StrV(s_never), StrV(s_current), StrV(<<"C","U","R","R","E","N","T">>),
     StrV(s_No_Info), StrV(s_no_info), StrV(<<"s","o","m","e","t","i","m","e","s">>)}
AgeValues == {Num(450), StrV(<<"4","5">>), StrV(<<"a","b","c">>)}
BmiValues == {Num(273), Num(0), Num(50), StrV(<<"0">>)}
Hba1cValues == {Num(55), Num(0)}
GlucoseValues == {Num(1100), Num(0)}
OddValues == {NoneV, StrV(<<"n","a","n">>), StrV(<<"i","n","f">>),
              StrV(<<" ","5",".","5"," ">>)}

\* the field order app.py builds its record in
app_order == <<"age", "gender", "bmi", "smoking_history", "hbA1c_level",
               "blood_glucose_level">>

\* records lacking any set of fields
MissingInputs ==
    {Mapping(SelectSeq(required_fields, LAMBDA f : f \in S), Restrict(BaseRecord, S)) :
        S \in SUBSET Range(required_fields)}

CategoryInputs ==
    {Mapping(required_fields, [BaseRecord EXCEPT !.gender = g, !.smoking_history = s]) :
        g \in GenderValues, s \in SmokingValues}

NumericInputs ==
    {Mapping(required_fields,
             [BaseRecord EXCEPT !.age = a, !.bmi = b, !.hbA1c_level = h,
                                !.blood_glucose_level = gl]) :
        a \in AgeValues, b \in BmiValues, h \in Hba1cValues, gl \in GlucoseValues}

OddInputs ==
    {Mapping(required_fields, [BaseRecord EXCEPT ![f] = v]) :
        f \in Range(numeric_fields), v \in OddValues}

\* records with one number on a bound of validation_ranges or just outside it
RangeValues ==
    [f \in Range(numeric_fields) |->
        CASE f = "age" -> {0, 1200, 1201}
          [] f = "bmi" -> {99, 100, 600, 601}
          [] f = "hbA1c_level" -> {29, 30, 150, 151}
          [] f = "blood_glucose_level" -> {499, 500, 3000, 3001}]

RangeInputs ==
    UNION {{Mapping(required_fields, [BaseRecord EXCEPT ![f] = Num(n)]) : n \in RangeValues[f]} :
             f \in Range(numeric_fields)}

SweepInputs ==
    {Mapping(app_order, [BaseRecord EXCEPT !.age = Num(300 + k), !.gender = StrV(g)]) :
        k \in 0..MaxSweep, g \in {s_Female, s_female}}

Inputs == MissingInputs \cup CategoryInputs \cup NumericInputs \cup OddInputs
          \cup SweepInputs \cup RangeInputs \cup {NotAMapping}

(***************************************************************************)
(* The files a process can find at start: none, the bundle an earlier run  *)
(* of the same class saved from dataset 1, or that bundle with a file lost *)
(***************************************************************************)
SavedDisk(v, did) ==
    CHOOSE d \in {save_model(v, tr.self, EmptyDisk).disk :
                    tr \in {train_model(v, pre.self, pre.df) :
                              pre \in {load_and_preprocess_data(v, new_predictor, did)}}} :
        TRUE

InitDisks(v) ==
    UNION {{EmptyDisk, good,
            [good EXCEPT !.meta = NoMeta],
            [good EXCEPT !.scaler = NoFile],
            [good EXCEPT !.meta.has_tm = FALSE, !.meta.tm = NoMedians]} :
              good \in {SavedDisk(v, 1)}}

\* no second process is saving
NoSaver == [at |-> 0, p |-> new_predictor]

Variants == {"pkg", "pred", "dia", "web"}
SklearnGens == {"old", "mid", "new"}

Init ==
    /\ variant \in Variants
    /\ sklearn \in SklearnGens
    /\ self = new_predictor
    /\ disk \in InitDisks(variant)
    /\ pc = "idle"
    /\ user_input = NotAMapping
    /\ result = NoResult
    /\ trace = <<>>
    /\ raised = FALSE
    /\ caller_df = NoDf
    /\ repeated = FALSE
    /\ server = "down"
    /\ completed = FALSE
    /\ saver = NoSaver

LoadModel ==
    /\ pc = "idle"
    /\ \E r \in {load_model(variant, self, disk)} :
         /\ self' = r.self
         /\ completed' = (completed \/ r.out = "True")
    /\ UNCHANGED <<saver, variant, sklearn, disk, pc, user_input, result, trace, raised,
                   caller_df, repeated, server>>

LoadAndPreprocess ==
    /\ pc = "idle"
    /\ \E did \in DatasetIds \cup {0} :
         \E r \in {load_and_preprocess_data(variant, self, did)} :
             /\ self' = r.self
             /\ caller_df' = IF r.out = "raised" THEN caller_df ELSE r.df
    /\ UNCHANGED <<saver, variant, sklearn, disk, pc, user_input, result, trace, raised,
                   repeated, server, completed>>

TrainModel ==
    /\ pc = "idle"
    /\ caller_df # NoDf
    /\ \E r \in {train_model(variant, self, caller_df)} :
         /\ self' = r.self
         /\ completed' = (completed \/ r.out # "raised")
    /\ UNCHANGED <<saver, variant, sklearn, disk, pc, user_input, result, trace, raised,
                   caller_df, repeated, server>>

SaveModel ==
    /\ pc = "idle"
    /\ disk' = save_model(variant, self, disk).disk
    /\ UNCHANGED <<saver, variant, sklearn, self, pc, user_input, result, trace, raised,
                   caller_df, repeated, server, completed>>

\* a variant that starts the server whatever load_model returned
AppMain_unconditional ==
    /\ variant = "pred" /\ pc = "idle" /\ server = "down" /\ self = new_predictor
    /\ \E r \in {load_model(variant, self, disk)} :
         /\ self' = r.self
         /\ completed' = (completed \/ r.out = "True")
    /\ server' = "up"
    /\ UNCHANGED <<saver, variant, sklearn, disk, pc, user_input, result, trace, raised,
                   caller_df, repeated>>

\* app.py run as a script: predictor = DiabetesPredictor() at import, then
\* app.run(...) only in the else branch of `if not predictor.load_model()`
AppMain ==
    /\ variant = "pred" /\ pc = "idle" /\ server = "down" /\ self = new_predictor
    /\ \E r \in {load_model(variant, self, disk)} :
         /\ self' = r.self
         /\ server' = IF r.out = "True" THEN "up" ELSE "down"
         /\ completed' = (completed \/ r.out = "True")
    /\ UNCHANGED <<saver, variant, sklearn, disk, pc, user_input, result, trace, raised,
                   caller_df, repeated>>

\* web_app.py at import: predictor = DiabetesPredictor(); load_model(), and when
\* that is False, load_and_preprocess_data / train_model / save_model inside
\* try ... except Exception; the routes are served whatever happened
WebAppStartup ==
    /\ variant = "web" /\ pc = "idle" /\ server = "down" /\ self = new_predictor
    /\ \E l \in {load_model(variant, self, disk)} :
         IF l.out = "True"
         THEN /\ self' = l.self
              /\ completed' = TRUE
              /\ UNCHANGED <<disk, caller_df>>
         ELSE \E did \in DatasetIds \cup {0} :
                \E pre \in {load_and_preprocess_data(variant, l.self, did)} :
                  IF pre.out = "raised"
                  THEN /\ self' = pre.self
                       /\ UNCHANGED <<disk, caller_df, completed>>
                  ELSE \E tr \in {train_model(variant, pre.self, pre.df)} :
                         /\ self' = tr.self
                         /\ caller_df' = pre.df
                         /\ IF tr.out = "raised"
                            THEN UNCHANGED <<disk, completed>>
                            ELSE /\ disk' = save_model(variant, tr.self, disk).disk
                                 /\ completed' = TRUE
    /\ server' = "up"
    /\ UNCHANGED <<saver, variant, sklearn, pc, user_input, result, trace, raised, repeated>>

\* pd.Timestamp.now() of src/diabetes.py reads the clock; the other classes do not
Timestamps(v) == IF v = "web" THEN 0..MaxTime ELSE {0}

\* predict_diabetes with fit_transform in place of transform: the call refits
\* the scaler on the record it is given
predict_call_refitting(v, p, u) ==
    [self |-> IF p.scaler.kind = "fitted" THEN [p EXCEPT !.scaler.fit = 0] ELSE p,
     user_input |-> u]

\* the predictor and the caller's record after a predict_diabetes call: the
\* method assigns no attribute of self, calls only transform, predict and
\* predict_proba on the scaler and the classifier, and builds its own
\* DataFrame and dicts from the values of user_input
predict_call(v, p, u) == [self |-> p, user_input |-> u]

Predict ==
    /\ pc = "idle"
    /\ \E u \in Inputs, now \in Timestamps(variant) :
         \E r \in {predict_diabetes(variant, sklearn, self, u, now)},
            a \in {predict_call(variant, self, u)} :
             /\ self' = a.self
             /\ user_input' = a.user_input
             /\ result' = r.result
             /\ trace' = r.trace
             /\ raised' = (r.kind # "return")
    /\ pc' = "returned"
    /\ repeated' = FALSE
    /\ UNCHANGED <<saver, variant, sklearn, disk, caller_df, server, completed>>

\* the caller makes the call it has just made once more, with the same record
PredictAgain ==
    /\ pc = "returned" /\ ~repeated
    /\ \E now \in Timestamps(variant) :
         \E r \in {predict_diabetes(variant, sklearn, self, user_input, now)},
            a \in {predict_call(variant, self, user_input)} :
             /\ self' = a.self
             /\ user_input' = a.user_input
             /\ result' = r.result
             /\ trace' = r.trace
             /\ raised' = (r.kind # "return")
    /\ repeated' = TRUE
    /\ UNCHANGED <<saver, variant, sklearn, disk, pc, caller_df, server, completed>>

\* the caller has read the result and is ready for its next call
Resume ==
    /\ pc = "returned"
    /\ pc' = "idle"
    /\ user_input' = NotAMapping
    /\ result' = NoResult
    /\ trace' = <<>>
    /\ raised' = FALSE
    /\ repeated' = FALSE
    /\ UNCHANGED <<saver, variant, sklearn, self, disk, caller_df, server, completed>>

Next ==
    \/ LoadModel \/ LoadAndPreprocess \/ TrainModel \/ SaveModel
    \/ AppMain \/ WebAppStartup
    \/ Predict \/ PredictAgain \/ Resume

Spec == Init /\ [][Next]_vars

(***************************************************************************)
(* Two processes and the model files.  One process holds a trained         *)
(* predictor and runs save_model, which writes diabetes_model.pkl, then    *)
(* scaler.pkl, then model_metadata.json, each with its own open/dump; it   *)
(* may be killed between two writes.  The other process constructs a       *)
(* predictor and runs load_model on whatever the files hold.               *)
(***************************************************************************)
\* the predictor a process has after load_and_preprocess_data and train_model
TrainedOn(v, did) ==
    CHOOSE q \in {train_model(v, pre.self, pre.df).self :
                    pre \in {load_and_preprocess_data(v, new_predictor, did)}} : TRUE

SaveVariants == {"pkg", "pred"}

InitSave ==
    /\ variant \in SaveVariants
    /\ sklearn \in SklearnGens
    /\ self = new_predictor
    /\ disk \in {EmptyDisk} \cup {SavedDisk(variant, did) : did \in DatasetIds}
    /\ pc = "idle"
    /\ user_input = NotAMapping
    /\ result = NoResult
    /\ trace = <<>>
    /\ raised = FALSE
    /\ caller_df = NoDf
    /\ repeated = FALSE
    /\ server = "down"
    /\ completed = FALSE
    /\ \E did \in DatasetIds : saver = [at |-> 0, p |-> TrainedOn(variant, did)]

\* pickle.dump(self.model, open("diabetes_model.pkl", "wb")), after the
\* is_trained test
SaveWriteModel ==
    /\ saver.at = 0 /\ saver.p.is_trained
    /\ disk' = [disk EXCEPT !.pkl = save_model(variant, saver.p, disk).disk.pkl]
    /\ saver' = [saver EXCEPT !.at = 1]
    /\ UNCHANGED <<variant, sklearn, self, pc, user_input, result, trace, raised,
                   caller_df, repeated, server, completed>>

\* pickle.dump(self.scaler, open("scaler.pkl", "wb"))
SaveWriteScaler ==
    /\ saver.at = 1
    /\ disk' = [disk EXCEPT !.scaler = save_model(variant, saver.p, disk).disk.scaler]
    /\ saver' = [saver EXCEPT !.at = 2]
    /\ UNCHANGED <<variant, sklearn, self, pc, user_input, result, trace, raised,
                   caller_df, repeated, server, completed>>

\* json.dump(metadata, open("model_metadata.json", "w")); save_model returns, and
\* the process goes on with the predictor of one of its training runs
SaveWriteMeta ==
    /\ saver.at = 2
    /\ disk' = [disk EXCEPT !.meta = save_model(variant, saver.p, disk).disk.meta]
    /\ \E did \in DatasetIds : saver' = [at |-> 0, p |-> TrainedOn(variant, did)]
    /\ UNCHANGED <<variant, sklearn, self, pc, user_input, result, trace, raised,
                   caller_df, repeated, server, completed>>

\* the saving process is killed between two writes and started again
SaveInterrupted ==
    /\ saver.at \in {1, 2}
    /\ \E did \in DatasetIds : saver' = [at |-> 0, p |-> TrainedOn(variant, did)]
    /\ UNCHANGED <<variant, sklearn, self, disk, pc, user_input, result, trace, raised,
                   caller_df, repeated, server, completed>>

\* the loading process starts anew: predictor = DiabetesPredictor()
NewPredictor ==
    /\ pc = "idle"
    /\ self' = new_predictor
    /\ completed' = FALSE
    /\ UNCHANGED <<saver, variant, sklearn, disk, pc, user_input, result, trace, raised,
                   caller_df, repeated, server>>

NextSave ==
    \/ SaveWriteModel \/ SaveWriteScaler \/ SaveWriteMeta \/ SaveInterrupted
    \/ NewPredictor \/ LoadModel

SpecSave == InitSave /\ [][NextSave]_vars

(***************************************************************************)
(* Vocabulary of the properties                                            *)
(***************************************************************************)
Called == pc = "returned"
Ready == is_ready(variant, self)
IsError == IF variant = "web" THEN "error" \in DOMAIN result /\ result.error = TRUE
           ELSE "error" \in DOMAIN result
Succeeded == "prediction" \in DOMAIN result
MissingOf(u) == {f \in Range(required_fields) : f \notin Range(u.keys)}
Complete(u) == u.isdict /\ MissingOf(u) = {}
\* the frame handed to the scaler, when the call got that far
Encoded == [c \in Range(trace[1].cols) |-> trace[1].x[IndexIn(trace[1].cols, c)]]
\* the positive-class probability the classifier returned to the call
CallProb == forest_proba(self.model, [x |-> trace[3].x, fit |-> self.scaler.fit])
CallDecision == forest_predict(self.model, [x |-> trace[2].x, fit |-> self.scaler.fit])
Banded == Called /\ variant \in FlagVariants /\ Succeeded /\ Len(trace) = 3
ClosedGenders == {s_female, s_male, s_other}
ClosedSmoking == {s_never, s_not_current, s_current, s_no_info, s_ever, s_former}
Normalised(v) == lower(strip(py_str(v)))
PlainNumbers(u) == \A f \in Range(numeric_fields) : u.val[f].t = "num"

(***************************************************************************)
(* C1: a ready predictor of src/Diabetes predection/diabetes.py or         *)
(* src/diabetes.py, given a record that lacks required fields, returns an  *)
(* error that names exactly the missing fields, and calls neither the      *)
(* scaler nor the classifier.                                              *)
(***************************************************************************)
C1_MissingFieldsNamed ==
    (Called /\ variant \in {"pkg", "web"} /\ Ready /\ user_input.isdict
       /\ MissingOf(user_input) # {})
    => /\ trace = <<>>
       /\ ~raised
       /\ "error" \in DOMAIN result
       /\ IF variant = "pkg"
          THEN /\ result.error.msg = "Missing fields"
               /\ Range(result.error.detail) = MissingOf(user_input)
               /\ Len(result.error.detail) = Cardinality(MissingOf(user_input))
          ELSE /\ result.error = TRUE
               /\ "errors" \in DOMAIN result
               /\ {result.errors[i].field : i \in 1..Len(result.errors)}
                     = MissingOf(user_input)
               /\ Len(result.errors) = Cardinality(MissingOf(user_input))
               /\ \A i \in 1..Len(result.errors) :
                     result.errors[i].msg = "Missing required field"

C1_Witness ==
    /\ Called /\ variant = "pkg" /\ Ready
    /\ MissingOf(user_input) = {"age", "bmi"}
    /\ result = Err("Missing fields", <<"age", "bmi">>)
    /\ trace = <<>>

(***************************************************************************)
(* C2: whatever the input and the predictor state, predict_diabetes        *)
(* returns a result mapping and no exception escapes it; a failure of the  *)
(* scaler or the classifier comes back as an error result.                 *)
(***************************************************************************)
C2_NoExceptionEscapes ==
    Called => /\ ~raised
              /\ "none" \notin DOMAIN result
              /\ (IsError \/ Succeeded)
              /\ (Len(trace) \in {1, 2} => IsError)

C2_Witness ==
    /\ Called /\ variant = "pkg" /\ Len(trace) = 1 /\ ~raised
    /\ "error" \in DOMAIN result /\ result.error = [msg |-> "Prediction failed",
                                                     detail |-> <<"ValueError">>]

(***************************************************************************)
(* C3 as stated: the result has the key 'error' exactly when the           *)
(* prediction failed, for every class variant.                             *)
(***************************************************************************)
C3_ErrorKeyIffFailed ==
    Called => (("error" \in DOMAIN result) <=> ~Succeeded)

(***************************************************************************)
(* C3 as amended: in the classes of Diabetes predection/diabetes.py,       *)
(* predicator.py and diabete.py the result is either {'error': ...} alone  *)
(* or the four prediction fields alone; the result of src/diabetes.py      *)
(* always has the key 'error', True with no prediction field on failure    *)
(* and False beside the prediction fields on success.                      *)
(***************************************************************************)
C3_ErrorKeyOrTruth ==
    Called =>
      IF variant \in FlagVariants
      THEN \/ DOMAIN result = {"error"}
           \/ DOMAIN result = {"prediction", "probability", "confidence", "risk_category"}
      ELSE /\ "error" \in DOMAIN result
           /\ result.error <=> ~Succeeded
           /\ result.error => DOMAIN result \subseteq {"error", "message", "errors"}
           /\ Succeeded => Len(trace) = 3

C3_Witness ==
    /\ Called /\ variant = "web" /\ Succeeded
    /\ "error" \in DOMAIN result /\ result.error = FALSE

(***************************************************************************)
(* C4: a record the class's validation rejects (a missing field or a       *)
(* non-numeric number in both classes, a category outside the closed set   *)
(* in Diabetes predection/diabetes.py) gets its error before any call of   *)
(* scaler.transform, model.predict or model.predict_proba, and no call     *)
(* that made a model computation returns a validation error.               *)
(***************************************************************************)
Rejected(v, u) ==
    /\ u.isdict
    /\ \/ MissingOf(u) # {}
       \/ \E f \in Range(numeric_fields) : ~py_float(u.val[f]).ok
       \/ /\ v = "pkg"
          /\ \/ Normalised(u.val["gender"]) \notin ClosedGenders
             \/ Normalised(u.val["smoking_history"]) \notin ClosedSmoking

ValidationErrors == {"Missing fields", "Invalid gender", "Invalid smoking history",
                     "must be a number"}

IsValidationError ==
    /\ "error" \in DOMAIN result
    /\ IF variant = "web" THEN "errors" \in DOMAIN result
       ELSE result.error.msg \in ValidationErrors

C4_ValidationBeforeModel ==
    (Called /\ variant \in {"pkg", "web"})
    => /\ Rejected(variant, user_input) => (IsError /\ trace = <<>>)
       /\ IsValidationError => trace = <<>>
       /\ (Ready /\ variant = "pkg" /\ Rejected(variant, user_input)) => IsValidationError

C4_Witness ==
    /\ Called /\ variant = "pkg" /\ Ready /\ Complete(user_input)
    /\ Normalised(user_input.val["gender"]) = <<"x","y","z">>
    /\ result = Err("Invalid gender", <<>>)
    /\ trace = <<>>

(***************************************************************************)
(* C5: for a valid record given to a ready predictor of Diabetes           *)
(* predection/diabetes.py or predicator.py, and each of bmi, hbA1c_level   *)
(* and blood_glucose_level: a value of exactly zero reaches the scaler as  *)
(* training_medians[column], and a nonzero value, however implausible,     *)
(* reaches it unchanged.                                                   *)
(***************************************************************************)
MediansCover ==
    /\ ~self.training_medians.isnone
    /\ Range(zero_invalid_cols) \subseteq DOMAIN self.training_medians.dict

ValidRecord(u) ==
    /\ Complete(u)
    /\ PlainNumbers(u)
    /\ Normalised(u.val["gender"]) \in ClosedGenders
    /\ Normalised(u.val["smoking_history"]) \in ClosedSmoking

C5_ZeroImputation ==
    (Called /\ variant \in {"pkg", "pred"} /\ Ready /\ ValidRecord(user_input))
    => /\ MediansCover => trace # <<>>
       /\ trace # <<>> =>
            \A c \in Range(zero_invalid_cols) \cap Range(trace[1].cols) :
               LET given == user_input.val[c]
               IN  IF ~IsZero(given) THEN Encoded[c] = given
                   ELSE (~self.training_medians.isnone
                         /\ c \in DOMAIN self.training_medians.dict)
                        => Encoded[c] = self.training_medians.dict[c]

C5_Witness ==
    /\ Called /\ variant = "pkg" /\ Ready /\ ValidRecord(user_input)
    /\ user_input.val["bmi"] = Num(0)
    /\ user_input.val["hbA1c_level"] = Num(55)
    /\ trace # <<>> /\ "bmi" \in Range(trace[1].cols)
    /\ Encoded["bmi"] = Num(273) /\ Encoded["hbA1c_level"] = Num(55)

C5_WitnessImplausible ==
    /\ Called /\ variant = "pred" /\ Ready /\ ValidRecord(user_input)
    /\ user_input.val["bmi"] = Num(50)
    /\ trace # <<>> /\ "bmi" \in Range(trace[1].cols)
    /\ Encoded["bmi"] = Num(50)

(***************************************************************************)
(* C6: for a record whose gender and smoking_history belong to the closed  *)
(* sets under any letter case and surrounding whitespace, encoding does    *)
(* not fail and the scaler receives the integer code of the canonical      *)
(* spelling, in Diabetes predection/diabetes.py and in predicator.py.      *)
(***************************************************************************)
C6_CaseInsensitiveEncoding ==
    (Called /\ variant \in {"pkg", "pred"} /\ Ready /\ ValidRecord(user_input)
       /\ MediansCover)
    => /\ trace # <<>>
       /\ "gender" \in Range(trace[1].cols) =>
            Encoded["gender"] =
               Num(10 * gender_mapping("pkg")[Normalised(user_input.val["gender"])])
       /\ "smoking_history" \in Range(trace[1].cols) =>
            Encoded["smoking_history"] =
               Num(10 * smoking_mapping("pkg")[Normalised(user_input.val["smoking_history"])])

(***************************************************************************)
(* C7: in a successful prediction with positive-class probability p,       *)
(* risk_category is "High" exactly when p > 0.7, "Medium" exactly when     *)
(* 0.3 < p <= 0.7 and "Low" exactly when p <= 0.3.                         *)
(***************************************************************************)
C7_RiskBands ==
    Banded =>
       /\ result.risk_category \in {"High", "Medium", "Low"}
       /\ result.risk_category = "High" <=> CallProb > 70000
       /\ result.risk_category = "Medium" <=> (CallProb > 30000 /\ CallProb <= 70000)
       /\ result.risk_category = "Low" <=> CallProb <= 30000

C7_Witness ==
    /\ Banded /\ variant = "pred"
    /\ CallProb = 30001 /\ result.risk_category = "Medium"

(***************************************************************************)
(* C8 as stated: a prediction with p = 0.30 has risk_category "Medium"     *)
(* and a prediction with p = 0.70 has risk_category "Medium".              *)
(***************************************************************************)
C8_BoundariesMedium ==
    Banded => /\ CallProb = 30000 => result.risk_category = "Medium"
              /\ CallProb = 70000 => result.risk_category = "Medium"

(***************************************************************************)
(* C8 as amended: a prediction with p = 0.30 has risk_category "Low"       *)
(* (the lower bound of "Medium" is strict) and a prediction with p = 0.70  *)
(* has risk_category "Medium".                                             *)
(***************************************************************************)
C8_BoundaryBands ==
    Banded => /\ CallProb = 30000 => result.risk_category = "Low"
              /\ CallProb = 70000 => result.risk_category = "Medium"

C8_Witness ==
    /\ Banded /\ variant = "dia"
    /\ CallProb = 30000 /\ result.risk_category = "Low"

C8_WitnessUpper ==
    /\ Banded /\ variant = "pkg"
    /\ CallProb = 70000 /\ result.risk_category = "Medium"

(***************************************************************************)
(* C9: in a successful prediction with positive-class probability p,       *)
(* confidence is "High" exactly when p > 0.8 or p < 0.2 and "Medium"       *)
(* otherwise; it is never "Low".                                           *)
(***************************************************************************)
C9_ConfidenceBands ==
    Banded =>
       /\ result.confidence \in {"High", "Medium"}
       /\ result.confidence = "High" <=> (CallProb > 80000 \/ CallProb < 20000)
       /\ CallProb \in {20000, 50000, 80000} => result.confidence = "Medium"
       /\ CallProb = 19000 => result.confidence = "High"

C9_Witness ==
    /\ Banded /\ variant = "pkg"
    /\ CallProb = 20000 /\ result.confidence = "Medium"

(***************************************************************************)
(* C10: the label of a successful prediction is "Diabetes" exactly when    *)
(* model.predict chose class 1, predict and predict_proba are given the    *)
(* same scaled vector, probability is p * 100 rounded to two decimals,     *)
(* and p = 0.75 gives "Diabetes", "High", "Medium" and 75.0.               *)
(***************************************************************************)
C10_OneEvaluation ==
    Banded =>
       /\ result.prediction \in {"Diabetes", "No Diabetes"}
       /\ result.prediction = "Diabetes" <=> CallDecision = 1
       /\ <<trace[1].call, trace[2].call, trace[3].call>>
             = <<"scaler.transform", "model.predict", "model.predict_proba">>
       /\ trace[2].x = trace[3].x
       /\ 10 * result.probability - CallProb \in -5..5
       /\ CallProb = 75000 =>
             result = [prediction |-> "Diabetes", probability |-> 7500,
                       confidence |-> "Medium", risk_category |-> "High"]

C10_Witness ==
    /\ Banded /\ variant = "pred" /\ CallProb = 75000
    /\ result = [prediction |-> "Diabetes", probability |-> 7500,
                 confidence |-> "Medium", risk_category |-> "High"]

(***************************************************************************)
(* C11: when a ready predictor of Diabetes predection/diabetes.py or       *)
(* src/diabetes.py is given a valid record, in whatever order its fields   *)
(* come, the frame handed to scaler.transform has exactly                  *)
(* len(feature_names) columns, named feature_names in that order.          *)
(***************************************************************************)
C11_FeatureOrder ==
    (Called /\ variant \in {"pkg", "web"} /\ Ready /\ ValidRecord(user_input)
       /\ trace # <<>>)
    => /\ ~self.feature_names.isnone
       /\ trace[1].call = "scaler.transform"
       /\ trace[1].cols = self.feature_names.list
       /\ Len(trace[1].x) = Len(self.feature_names.list)

C11_Witness ==
    /\ Called /\ variant = "pkg" /\ Ready /\ ValidRecord(user_input) /\ Succeeded
    /\ user_input.keys = app_order
    /\ trace[1].cols = self.feature_names.list
    /\ trace[1].cols # pkg_columns
    /\ trace[1].cols # user_input.keys

(***************************************************************************)
(* C12: when a name in feature_names has no column in the record as        *)
(* encoded, predict_diabetes of Diabetes predection/diabetes.py,           *)
(* src/diabetes.py and diabete.py returns an error without calling the     *)
(* scaler or the classifier: the feature is never filled with a default    *)
(* and scaled.                                                             *)
(***************************************************************************)
\* the feature names for which the frame built from u has no column
FeaturesWithoutColumn(v, p, u) ==
    IF p.feature_names.isnone \/ ~u.isdict THEN {}
    ELSE {c \in Range(p.feature_names.list) :
            c \notin (IF v = "pkg" THEN Range(pkg_columns) ELSE Range(u.keys))}

C12_MissingFeatureIsError ==
    (Called /\ variant \in {"pkg", "web", "dia"} /\ Ready
       /\ FeaturesWithoutColumn(variant, self, user_input) # {})
    => (IsError /\ trace = <<>>)

Untimed(res) == [k \in DOMAIN res \ {"timestamp"} |-> res[k]]

NotReadyResult ==
    IF variant = "web" THEN WebErr("Model not trained or loaded.")
    ELSE IF variant = "pred" THEN Err("Model not ready", <<>>)
    ELSE Err("Model not trained or loaded.", <<>>)

PassesValidation(u) ==
    \E val \in {validate_input(u)} : ~val.raised /\ val.is_valid

LoadFails ==
    /\ pc = "idle" /\ pc' = "idle"
    /\ \E r \in {load_model(variant, self, disk)} : r.out = "False" /\ self' = r.self
    /\ UNCHANGED <<disk, caller_df, server, completed>>

TrainingCellsImputed ==
    caller_df # NoDf =>
      \A i \in 1..Len(caller_df.rows) :
        \A c \in Range(zero_invalid_cols) \cap Range(caller_df.cols) :
          \E raw \in {Dataset(caller_df.id).rows[i][c]} :
            IF IsZero(raw) \/ raw.t = "nan"
            THEN caller_df.rows[i][c] = median_nonzero(Dataset(caller_df.id), c)
            ELSE caller_df.rows[i][c] = raw

\* a record that is valid except that it may lack some of the three columns
ValidButFor(u) ==
    /\ u.isdict
    /\ MissingOf(u) \subseteq Range(zero_invalid_cols)
    /\ \A f \in Range(numeric_fields) \cap Range(u.keys) : u.val[f].t = "num"
    /\ Normalised(u.val["gender"]) \in ClosedGenders
    /\ Normalised(u.val["smoking_history"]) \in ClosedSmoking

MedianReachesScaler(c) ==
    /\ trace # <<>>
    /\ c \in Range(trace[1].cols) => Encoded[c] = self.training_medians.dict[c]

C16_ZeroOrAbsentImputed ==
    variant \in {"pkg", "pred"} =>
      /\ TrainingCellsImputed
      /\ (Called /\ Ready /\ MediansCover /\ ValidButFor(user_input)) =>
            \A c \in Range(zero_invalid_cols) :
               (c \notin Range(user_input.keys) \/ IsZero(user_input.val[c]))
                  => MedianReachesScaler(c)

(***************************************************************************)
(* C16 as amended: at training time a zero or empty cell of the three      *)
(* columns is replaced by the column's median, which is stored; at         *)
(* inference time a value of exactly zero is replaced by the stored median *)
(* of the column, while a record that lacks the field is answered with an  *)
(* error and no scaler or classifier call ('Missing fields: ...' in        *)
(* Diabetes predection/diabetes.py, 'Prediction failed: ...' in            *)
(* predicator.py).                                                         *)
(***************************************************************************)
C16_ZeroImputedAbsentRejected ==
    variant \in {"pkg", "pred"} =>
      /\ TrainingCellsImputed
      /\ (Called /\ Ready /\ MediansCover /\ ValidButFor(user_input)) =>
            IF MissingOf(user_input) = {}
            THEN \A c \in Range(zero_invalid_cols) :
                    IsZero(user_input.val[c]) => MedianReachesScaler(c)
            ELSE /\ trace = <<>> /\ ~raised /\ DOMAIN result = {"error"}
                 /\ result.error.msg = IF variant = "pkg" THEN "Missing fields"
                                        ELSE "Prediction failed"
                 /\ variant = "pkg"
                      => Range(result.error.detail) = MissingOf(user_input)

C16_Witness ==
    /\ variant = "pkg" /\ Called /\ Ready /\ MediansCover
    /\ caller_df.id = 2
    /\ caller_df.rows[5]["hbA1c_level"] = Num(60)
    /\ caller_df.rows[4]["blood_glucose_level"] = Num(1100)
    /\ ValidButFor(user_input) /\ MissingOf(user_input) = {"bmi"}
    /\ result = Err("Missing fields", <<"bmi">>)

(***************************************************************************)
(* C17 as stated: in Diabetes predection/diabetes.py and src/diabetes.py a *)
(* gender outside the closed set is encoded as the code of "other" and a   *)
(* smoking_history outside it as the code of "no info", in the training    *)
(* frame and in the frame handed to the scaler at inference alike, and     *)
(* never ends in an error.                                                 *)
(***************************************************************************)
\* the training frame of Diabetes predection/diabetes.py holds the code of each
\* spelling of the closed set and the fallback code for any other value
TrainingCategoriesClosed ==
    (variant = "pkg" /\ caller_df # NoDf) =>
      \A i \in 1..Len(caller_df.rows) :
        \E g \in {Normalised(Dataset(caller_df.id).rows[i]["gender"])},
           sm \in {Normalised(Dataset(caller_df.id).rows[i]["smoking_history"])} :
          /\ caller_df.rows[i]["gender"] =
                Num(10 * gender_mapping("pkg")[IF g \in ClosedGenders THEN g ELSE s_other])
          /\ caller_df.rows[i]["smoking_history"] =
                Num(10 * smoking_mapping("pkg")[IF sm \in ClosedSmoking THEN sm
                                                ELSE s_no_info])

\* the codes that stand for "other" and for "no info" in the predictor
OtherCode ==
    IF variant = "pkg" THEN Num(10 * gender_mapping("pkg")[s_other])
    ELSE web_encode(self.encoder["gender"], StrV(s_Other))
NoInfoCode ==
    IF variant = "pkg" THEN Num(10 * smoking_mapping("pkg")[s_no_info])
    ELSE web_encode(self.encoder["smoking_history"], StrV(s_No_Info))

\* whether the value of the field is outside what the class knows
OutOfSet(f) ==
    IF variant = "pkg"
    THEN Normalised(user_input.val[f])
            \notin (IF f = "gender" THEN ClosedGenders ELSE ClosedSmoking)
    ELSE f \in DOMAIN self.encoder
         /\ IndexIn(self.encoder[f], py_str(user_input.val[f])) = 0

InferenceCase ==
    /\ Called /\ variant \in {"pkg", "web"} /\ Ready
    /\ Complete(user_input) /\ PlainNumbers(user_input)
    /\ variant = "web" => (PassesValidation(user_input) /\ ~self.feature_names.isnone)

C17_FallbackEverywhere ==
    /\ TrainingCategoriesClosed
    /\ InferenceCase =>
         /\ OutOfSet("gender") =>
               (trace # <<>> /\ "gender" \in Range(trace[1].cols)
                  => Encoded["gender"] = OtherCode) /\ trace # <<>>
         /\ OutOfSet("smoking_history") =>
               (trace # <<>> /\ "smoking_history" \in Range(trace[1].cols)
                  => Encoded["smoking_history"] = NoInfoCode) /\ trace # <<>>

(***************************************************************************)
(* C17 as amended: at training time Diabetes predection/diabetes.py        *)
(* encodes a value outside the closed set as the code of "other" /         *)
(* "no info".  At inference time it rejects such a value with 'Invalid     *)
(* gender' / 'Invalid smoking history' and calls neither scaler nor        *)
(* classifier, while src/diabetes.py encodes a label its encoder has not   *)
(* seen as code 0, the first class in sorted order, and goes on to the     *)
(* scaler.                                                                 *)
(***************************************************************************)
C17_FallbackAtTrainingOnly ==
    /\ TrainingCategoriesClosed
    /\ InferenceCase =>
         IF variant = "pkg"
         THEN /\ OutOfSet("gender") =>
                    (result = Err("Invalid gender", <<>>) /\ trace = <<>>)
              /\ (~OutOfSet("gender") /\ OutOfSet("smoking_history")) =>
                    (result = Err("Invalid smoking history", <<>>) /\ trace = <<>>)
         ELSE \A f \in {"gender", "smoking_history"} :
                OutOfSet(f) =>
                  /\ trace # <<>>
                  /\ f \in Range(trace[1].cols) => Encoded[f] = Num(0)

C17_Witness ==
    /\ variant = "pkg" /\ InferenceCase
    /\ caller_df.id = 2
    /\ caller_df.rows[8]["gender"] = Num(20)
    /\ caller_df.rows[3]["smoking_history"] = Num(30)
    /\ caller_df.rows[1]["gender"] = Num(0)
    /\ ~OutOfSet("gender") /\ OutOfSet("smoking_history")
    /\ result = Err("Invalid smoking history", <<>>)

(***************************************************************************)
(* C18: in Diabetes predection/diabetes.py and src/diabetes.py, a record   *)
(* in which age, bmi, hbA1c_level or blood_glucose_level does not parse as *)
(* a number, or parses to NaN or infinity, gets an error result that names *)
(* the field, and neither scaler nor classifier is called.                 *)
(***************************************************************************)
\* float(v) fails, or gives nan or inf
NotFinite(v) == \E r \in {py_float(v)} : ~r.ok \/ r.val.t \in {"nan", "inf"}

ErrorNames(f) ==
    /\ "error" \in DOMAIN result
    /\ IF variant = "web"
       THEN /\ "errors" \in DOMAIN result
            /\ \E i \in 1..Len(result.errors) : result.errors[i].field = f
       ELSE f \in Range(result.error.detail)

C18_FiniteNumbersOnly ==
    (Called /\ variant \in {"pkg", "web"} /\ Ready /\ Complete(user_input)
       /\ Normalised(user_input.val["gender"]) \in ClosedGenders
       /\ Normalised(user_input.val["smoking_history"]) \in ClosedSmoking)
    => \A f \in Range(numeric_fields) :
          NotFinite(user_input.val[f])
             => (IsError /\ ~Succeeded /\ trace = <<>> /\ ErrorNames(f))

C20_OneBundle ==
    (variant = "pkg" /\ Ready) =>
      /\ self.model.kind = "rf" /\ self.scaler.kind = "fitted"
      /\ self.model.fit = self.scaler.fit
      /\ self.model.n = Len(self.scaler.names)
      /\ self.feature_names = Names(self.scaler.names)
      /\ ~self.training_medians.isnone
      /\ \E ds \in {Dataset(self.model.fit)} :
            self.training_medians.dict
               \in {clean_medians("pkg", ds, Without(ds.cols, drop_cols)).dict, EmptyDict}

(***************************************************************************)
(* C21: in Diabetes predection/diabetes.py, predicator.py and diabete.py,  *)
(* a load_model call that makes a predictor ready has read the classifier, *)
(* the scaler and a non-empty feature-name list from the files, and the    *)
(* scaler's input width equals len(feature_names).                         *)
(***************************************************************************)
\* a load_model step that takes the predictor from not ready to ready
LoadMakesReady ==
    /\ pc = "idle" /\ pc' = "idle"
    /\ ~Ready /\ Ready'
    /\ self' = load_model(variant, self, disk).self
    /\ UNCHANGED <<disk, caller_df>>

C21_ReadyOnlyIfConsistent ==
    [][(variant \in FlagVariants /\ LoadMakesReady) =>
          /\ disk.pkl.exists /\ self'.model = disk.pkl.model /\ self'.model.kind = "rf"
          /\ disk.scaler.exists /\ self'.scaler = disk.scaler.scaler
          /\ self'.scaler.kind = "fitted"
          /\ disk.meta.exists /\ disk.meta.valid /\ disk.meta.has_fn
          /\ self'.feature_names = disk.meta.fn
          /\ ~self'.feature_names.isnone /\ self'.feature_names.list # <<>>
          /\ Len(self'.scaler.names) = Len(self'.feature_names.list)]_vars

(***************************************************************************)
(* C22: with one process running save_model of Diabetes                    *)
(* predection/diabetes.py or predicator.py, possibly killed between two    *)
(* file writes, and another running load_model, the loading predictor      *)
(* holds nothing, or the classifier, scaler, feature names and medians of  *)
(* one and the same saved bundle.                                          *)
(***************************************************************************)
Parts(p) == <<p.model, p.scaler, p.feature_names, p.training_medians>>

C22_LoadSeesWholeBundle ==
    Parts(self) \in {Parts(new_predictor)}
                      \cup {Parts(TrainedOn(variant, did)) : did \in DatasetIds}

(***************************************************************************)
(* C23: in Diabetes predection/diabetes.py and src/diabetes.py, a          *)
(* predict_diabetes call, whatever the record and whether it ends in a     *)
(* prediction or an error, leaves the predictor's classifier, scaler,      *)
(* feature_names, training_medians, encoders and ready flag, and the files,*)
(* as they were; a second call sees the caller's record as the first call  *)
(* received it; and the result returned is the one the same call gives on  *)
(* the predictor as it is after the call, so the order of calls does not   *)
(* matter.                                                                 *)
(***************************************************************************)
PredictVariants == {"pkg", "web"}

\* a step that is a predict_diabetes call
PredictStep ==
    \/ pc = "idle" /\ pc' = "returned"
    \/ pc = "returned" /\ ~repeated /\ repeated'

CategoryVariants == {"pkg", "dia"}
CategoryFields == {"gender", "smoking_history"}

MappingOf(f) == IF f = "gender" THEN gender_mapping(variant) ELSE smoking_mapping(variant)
FallbackOf(f) ==
    IF f = "gender" THEN (IF variant = "pkg" THEN s_other ELSE s_Other)
    ELSE (IF variant = "pkg" THEN s_no_info ELSE s_No_Info)

\* the code _clean_data gives the value the caller passed for the field
TrainingCode(f) == category_code(variant, MappingOf(f), FallbackOf(f), user_input.val[f])

\* the value is one the mapping of the class knows, as the class looks it up
InSet(f) ==
    IF variant = "pkg" THEN Normalised(user_input.val[f]) \in DOMAIN MappingOf(f)
    ELSE user_input.val[f].t = "str" /\ user_input.val[f].s \in DOMAIN MappingOf(f)

\* a ready predictor with its named features and medians was given a record
\* that has every field and plain numbers
CodeCase ==
    /\ Called /\ variant \in CategoryVariants /\ Ready
    /\ Complete(user_input) /\ PlainNumbers(user_input)
    /\ ~self.feature_names.isnone
    /\ CategoryFields \subseteq Range(self.feature_names.list)
    /\ ~self.training_medians.isnone
    /\ Range(zero_invalid_cols) \subseteq DOMAIN self.training_medians.dict

C24_WitnessOutside ==
    /\ CodeCase /\ variant = "dia"
    /\ ~InSet("gender") /\ trace # <<>> /\ Encoded["gender"] = NaN

(***************************************************************************)
(* C25: when load_model of diabete.py finds the classifier and the scaler  *)
(* but no usable metadata and synthesises feature_0 .. feature_{n-1}, the  *)
(* status it leaves (the ready flag and its return value) differs from the *)
(* status after a load with real metadata, which is is_trained = True and  *)
(* a return value of True.                                                 *)
(***************************************************************************)
\* the files send load_model of diabete.py down _recover_feature_names
RecoveryPath ==
    /\ disk.pkl.exists /\ disk.scaler.exists
    /\ disk.scaler.scaler.kind = "fitted"
    /\ ~(/\ disk.meta.exists /\ disk.meta.valid /\ disk.meta.has_fn
          /\ ~disk.meta.fn.isnone /\ disk.meta.fn.list # <<>>)

\* a load_model step of diabete.py that took that path
RecoveringLoad ==
    /\ variant = "dia" /\ pc = "idle" /\ pc' = "idle"
    /\ RecoveryPath
    /\ self' = load_model("dia", self, disk).self
    /\ self'.feature_names = Names(SubSeq(FeatureI, 1, Len(disk.scaler.scaler.names)))
    /\ UNCHANGED <<disk, caller_df>>

C25_RecoveryFlagged ==
    [][RecoveringLoad =>
          <<self'.is_trained, load_model("dia", self, disk).out>> # <<TRUE, "True">>]_vars

(***************************************************************************)
(* C26 as stated: in src/diabetes.py a record with age, bmi, hbA1c_level   *)
(* or blood_glucose_level outside [0,120], [10,60], [3,15], [50,300] is    *)
(* still valid and a ready predictor still answers it with a prediction;   *)
(* a value on a bound is not flagged.                                      *)
(***************************************************************************)
\* the number given for the field lies outside the range of validation_ranges
OutOfRange(f) ==
    \/ user_input.val[f].n < validation_ranges[f][1]
    \/ user_input.val[f].n > validation_ranges[f][2]

\* src/diabetes.py was given a record with every field and plain numbers
RangeCase ==
    /\ Called /\ variant = "web"
    /\ Complete(user_input) /\ PlainNumbers(user_input)

\* the entries validate_input puts into errors for the record
RangeErrorsOf(u) == validate_input(u).errors

C26_OutOfRangeIsWarning ==
    RangeCase =>
      /\ PassesValidation(user_input)
      /\ RangeErrorsOf(user_input) = <<>>
      /\ (Ready /\ ~self.feature_names.isnone) => (trace # <<>> /\ Succeeded)

(***************************************************************************)
(* C26 as amended: in src/diabetes.py validate_input treats a value        *)
(* outside its range as an error: the record is invalid, predict_diabetes  *)
(* returns 'Input validation failed' with one entry per out-of-range field *)
(* and calls neither scaler nor classifier.  A value equal to a bound is   *)
(* accepted: it adds no error and a ready predictor goes on to the scaler. *)
(***************************************************************************)
C26_OutOfRangeIsError ==
    RangeCase =>
      /\ \A f \in Range(range_fields) :
            OutOfRange(f) <=> (\E i \in 1..Len(RangeErrorsOf(user_input)) :
                                  RangeErrorsOf(user_input)[i].field = f)
      /\ IF \E f \in Range(range_fields) : OutOfRange(f)
         THEN /\ ~PassesValidation(user_input)
              /\ result = WebInvalid(RangeErrorsOf(user_input))
              /\ trace = <<>> /\ ~raised
         ELSE /\ PassesValidation(user_input)
              /\ (Ready /\ ~self.feature_names.isnone) => trace # <<>>

\* a bmi of exactly 10.0 went through to a prediction
C26_Witness ==
    /\ RangeCase /\ Ready
    /\ user_input.val["bmi"] = Num(100)
    /\ Succeeded /\ trace # <<>>

\* a bmi of 60.1 was refused
C26_WitnessOutside ==
    /\ RangeCase /\ Ready
    /\ user_input.val["bmi"] = Num(601)
    /\ result = WebInvalid(<<[msg |-> "is above maximum", field |-> "bmi"]>>)

(***************************************************************************)
(* C27: in src/diabetes.py, the predictor web_app.py serves, a record      *)
(* whose bmi, hbA1c_level or blood_glucose_level is zero and whose other   *)
(* numbers are in range passes validation and reaches the scaler with the  *)
(* zero replaced by a median of the training data, while a nonzero value   *)
(* reaches the scaler unchanged.                                           *)
(***************************************************************************)
\* a loaded predictor of src/diabetes.py was given a complete record whose
\* numbers are in range or, for the three sentinel columns, zero
SentinelCase ==
    /\ RangeCase /\ Ready /\ ~self.feature_names.isnone
    /\ \A f \in Range(range_fields) :
          OutOfRange(f) => (f \in Range(zero_invalid_cols) /\ IsZero(user_input.val[f]))

C27_WebZeroImputed ==
    SentinelCase =>
      /\ PassesValidation(user_input)
      /\ trace # <<>>
      /\ \A c \in Range(zero_invalid_cols) \cap Range(trace[1].cols) :
            IF IsZero(user_input.val[c])
            THEN Encoded[c] = median_filled(Dataset(self.scaler.fit), c)
            ELSE Encoded[c] = user_input.val[c]

(***************************************************************************)
(* C28: in Diabetes predection/diabetes.py, whenever a trained predictor   *)
(* runs save_model, load_model on a fresh predictor then returns True and  *)
(* yields the feature_names (same names, same order) and training_medians  *)
(* (same columns, same values) of the predictor that saved.                *)
(***************************************************************************)
\* a save_model step of a trained predictor
SavingStep ==
    /\ variant = "pkg" /\ pc = "idle" /\ pc' = "idle"
    /\ self.is_trained
    /\ disk' = save_model("pkg", self, disk).disk
    /\ UNCHANGED <<self, caller_df, server, completed>>

C28_MetadataRoundTrip ==
    [][SavingStep =>
          \E fresh \in {load_model("pkg", new_predictor, disk')} :
             /\ fresh.out = "True"
             /\ fresh.self.feature_names = self.feature_names
             /\ fresh.self.training_medians = self.training_medians]_vars

\* the bundle on disk is the one the predictor trained on dataset 2 has saved
C28_Witness ==
    /\ variant = "pkg" /\ self.is_trained /\ self.model.fit = 2
    /\ caller_df.id = 2
    /\ disk = save_model("pkg", self, EmptyDisk).disk
    /\ self.training_medians.dict["hbA1c_level"] = Num(60)
    /\ load_model("pkg", new_predictor, disk).self.training_medians = self.training_medians

(***************************************************************************)
(* C29: whenever a predictor of Diabetes predection/diabetes.py is ready,  *)
(* through train_model or load_model in any order, training_medians holds  *)
(* a number for each of bmi, hbA1c_level and blood_glucose_level, and a    *)
(* valid record, zeros included, reaches the scaler with a number in every *)
(* column.                                                                 *)
(***************************************************************************)
C29_ReadyHasMedians ==
    (variant = "pkg" /\ Ready) =>
      /\ ~self.training_medians.isnone
      /\ \A c \in Range(zero_invalid_cols) :
            /\ c \in DOMAIN self.training_medians.dict
            /\ self.training_medians.dict[c].t = "num"
      /\ (Called /\ ValidRecord(user_input)) =>
            /\ trace # <<>>
            /\ \A c \in Range(trace[1].cols) : Encoded[c].t = "num"

(***************************************************************************)
(* C30 as stated: in diabete.py, once load_model has taken the feature-    *)
(* name recovery path, every predict_diabetes call, whatever the record,   *)
(* returns 'Input validation failed' and reaches neither scaler nor        *)
(* classifier.                                                             *)
(***************************************************************************)
\* the predictor of diabete.py is ready with the names _recover_feature_names made
Recovered ==
    /\ variant = "dia" /\ self.is_trained
    /\ ~self.feature_names.isnone /\ self.feature_names.list # <<>>
    /\ self.feature_names.list = SubSeq(FeatureI, 1, Len(self.feature_names.list))

InputValidationFailed ==
    /\ DOMAIN result = {"error"}
    /\ result.error.msg = "Input validation failed"
    /\ trace = <<>> /\ ~raised

C30_RecoveredAlwaysFails == (Recovered /\ Called) => InputValidationFailed

(***************************************************************************)
(* C30 as amended: the recovery path of load_model returns True, sets the  *)
(* ready flag and leaves training_medians as it was.  On a predictor that  *)
(* had no medians (a new one, as in main()), every predict_diabetes call   *)
(* then returns 'Input validation failed' without reaching the scaler.  On *)
(* a predictor that ran load_and_preprocess_data before, the medians are   *)
(* still there and a record with every field does reach the scaler.        *)
(***************************************************************************)
C30_RecoveredWithoutMediansFails ==
    /\ []((Recovered /\ Called /\ self.training_medians.isnone) => InputValidationFailed)
    /\ []((Recovered /\ Called /\ MediansCover /\ Complete(user_input)) => trace # <<>>)
    /\ [][RecoveringLoad =>
             /\ load_model("dia", self, disk).out = "True"
             /\ self'.is_trained
             /\ self'.training_medians = self.training_medians]_vars

\* a new predictor took the recovery path and refused a valid record
C30_Witness ==
    /\ Recovered /\ Called /\ self.training_medians.isnone
    /\ ValidButFor(user_input) /\ Complete(user_input)
    /\ InputValidationFailed

\* a predictor with medians took the recovery path and called the scaler
C30_WitnessWithMedians ==
    /\ Recovered /\ Called /\ MediansCover /\ Complete(user_input)
    /\ trace # <<>>

====
